---- MODULE Spec2Model ----
(***************************************************************************)
(* SmartMall intelligence service: the tool-calling agent (MallAgent), its *)
(* chat / confirm endpoints and the tool registry; the embedding service   *)
(* with its cache and text chunker; the catalog synchronisation service.   *)
(***************************************************************************)
EXTENDS Integers, Sequences, FiniteSets, TLC

VARIABLES
    pc,            \* position of the current chat turn
    user_input,    \* ChatRequest.message of the current turn
    has_image,     \* image_url is not None
    tools,         \* names of the tools offered to the LLM in this turn
    messages,      \* running message list of _execute_with_tools
    round_count,   \* local round counter of _execute_with_tools
    tool_results,  \* executed tool results of the current turn
    response,      \* tool calls of the current LLM response not yet looped over
    result,        \* response returned by the last endpoint call
    llm_calls,     \* chat_with_tools calls made in the current turn
    vision_calls,  \* chat_with_vision calls made in the current turn
    executed,      \* tool invocations (_execute_function) of the last endpoint call
    completed_rounds, \* rounds of the current turn whose tool calls were all executed
    pending,       \* pending actions emitted by turns and not yet confirmed or denied
    last_confirm,  \* the last ConfirmRequest and whether its action was pending
    llm_mode,      \* the LLM of the current turn: answering freely, or a round-count stub
    free_used,     \* tool calls issued so far by the freely answering LLM
    rag,           \* how the retrieval backend answers during the current request
    requests,      \* requests (chat and confirm) served so far
    \* EmbeddingService (embedding.py)
    cache_enabled, \* settings.RAG_CACHE_ENABLED
    cache,         \* self._cache: cache key -> embedding
    asked,         \* texts the provider was asked for by cached embed_text calls
                   \* since the cache was last cleared
    emb_last,      \* the last embedding operation: its input and its outcome
    chunk_size,    \* settings.CHUNK_SIZE
    chunk_overlap, \* settings.CHUNK_OVERLAP
    \* EmbeddingService.chunk_text, one call
    ck_pc,         \* "idle", "loop" (inside the while loop) or "done" (returned)
    ck_text,       \* the text being chunked
    ck_start,      \* start
    ck_end,        \* end, as of the last iteration
    ck_chunks,     \* chunks
    ck_iter,       \* iterations of the while loop made so far
    \* DataSyncService (sync.py) and the vector store behind its client
    awaitable,     \* the client's methods return awaitables (an injected asynchronous
                   \* client); FALSE for the application's own MilvusClient
    milvus,        \* collection name -> whether it exists, and its records in insert order
    sync_last,     \* the last synchronisation: its input and its SyncResult
    sync_history,  \* self._sync_history: the SyncResult of every synchronisation made
    trigger_last,  \* the last POST /sync/trigger: the collections asked for and the
                   \* results answered
    \* RAGService (service.py) and SmartMallRetriever (retriever.py)
    subscriptable, \* whether the installed pymilvus lets a CollectionSchema be subscripted
                   \* (schema["fields"]); pymilvus is not part of the repository
    ret_last,      \* the last retrieval: its arguments, what the store was asked and
                   \* answered, and what was returned
    \* the error branches of the endpoints (api/chat.py)
    err_last,      \* the last error response: the endpoint, the exception and the response
    \* coroutines running at the same time on the event loop
    up_tasks,      \* incremental_sync_stores calls: where each is suspended, its locals
    seen,          \* what the last search for an id saw, and which upserts of the id
                   \* were suspended or had returned then
    emb_tasks,     \* embed_text calls: where each is suspended, its locals
    turns          \* chat turns on the shared agent: where each is suspended, its locals

agent_vars == <<pc, user_input, has_image, tools, messages, round_count, tool_results,
          response, result, llm_calls, vision_calls, executed, completed_rounds,
          pending, last_confirm, llm_mode, free_used, rag, requests>>

embedding_vars == <<cache_enabled, cache, asked, emb_last>>

chunk_vars == <<chunk_size, chunk_overlap, ck_pc, ck_text, ck_start, ck_end, ck_chunks, ck_iter>>

sync_vars == <<awaitable, milvus, sync_last, sync_history, trigger_last>>

ret_vars == <<subscriptable, ret_last>>

\* the state of the retrieval side, untouched by the agent's endpoints
conc_vars == <<up_tasks, seen, emb_tasks, turns>>
service_vars == <<embedding_vars, chunk_vars, sync_vars, ret_vars, err_last, conc_vars>>

vars == <<agent_vars, service_vars>>

----------------------------------------------------------------------------
\* Bounds of the model

MaxRequests == 3
MaxCalls == 2
MaxFreeCalls == 2
MaxBatch == 2
MaxTextLen == 5
MaxChunkSize == 3
MaxChunkIters == 8
MaxRecords == 3

----------------------------------------------------------------------------
\* Tool registry (tools.py)

MALL_TOOLS ==
    {"navigate_to_store", "navigate_to_area", "search_products", "search_stores",
     "search_by_image", "get_product_detail", "get_store_info", "add_to_cart",
     "get_cart", "create_order", "recommend_products", "recommend_restaurants"}

OPERATION_LEVELS ==
    [n \in MALL_TOOLS |->
        CASE n = "add_to_cart" -> "confirm"
          [] n = "create_order" -> "critical"
          [] OTHER -> "safe"]

get_tools_for_context(image) ==
    IF ~image THEN {t \in MALL_TOOLS : t # "search_by_image"} ELSE MALL_TOOLS

\* OPERATION_LEVELS.get(func_name, "safe") with the add_to_cart entry missing
LevelOf_CartUnlisted(func_name) ==
    IF func_name = "create_order" THEN "critical" ELSE "safe"

\* OPERATION_LEVELS.get(func_name, "safe")
LevelOf(func_name) ==
    IF func_name \in DOMAIN OPERATION_LEVELS THEN OPERATION_LEVELS[func_name] ELSE "safe"

----------------------------------------------------------------------------
\* User text.  A text is a sequence of characters; a CJK character is written
\* as one token of two or more letters, an ASCII character as itself.

\* str.lower() on one character
LowerChar(c) ==
    CASE c = "A" -> "a" [] c = "B" -> "b" [] c = "D" -> "d" [] c = "I" -> "i"
      [] c = "J" -> "j" [] c = "K" -> "k" [] c = "L" -> "l" [] c = "N" -> "n"
      [] c = "P" -> "p" [] c = "R" -> "r" [] c = "C" -> "c" [] c = "T" -> "t"
      [] c = "Y" -> "y" [] OTHER -> c

\* str.lower()
Lower(s) == [i \in 1..Len(s) |-> LowerChar(s[i])]

\* Python's "p in s" on strings
IsSubstring(p, s) ==
    \E i \in 0..(Len(s) - Len(p)) : SubSeq(s, i + 1, i + Len(p)) = p

BLOCKED_PATTERNS ==
    << <<"hu","lue","shang","shu4">>,
       <<"hu","lue","zhi1","qian">>,
       <<"wang","ji","ni","de">>,
       <<"ni","xian","zai","shi4">>,
       <<"jia","zhuang","ni","shi4">>,
       <<"ban","yan">>,
       <<"jue","se","ban","yan">>,
       <<"shu1","chu","ni","de","p","r","o","m","p","t">>,
       <<"shu1","chu","xi","tong","ti","shi_">>,
       <<"ni","de","zhi3","ling","shi4","shen","me">>,
       <<"D","A","N","mo","shi2">>,
       <<"yue","yu">>,
       <<"j","a","i","l","b","r","e","a","k">>,
       <<"i","g","n","o","r","e"," ","p","r","e","v","i","o","u","s">>,
       <<"d","i","s","r","e","g","a","r","d">>,
       <<"p","r","e","t","e","n","d"," ","y","o","u"," ","a","r","e">> >>

SAFE_RESPONSE == "SAFE_RESPONSE"
TOO_LONG == "took too long"
CANCELLED == "cancelled"

\* MallAgent._is_unsafe_input, case-sensitive variant
IsUnsafeInput_CaseSensitive(text) ==
    \E k \in 1..Len(BLOCKED_PATTERNS) : IsSubstring(BLOCKED_PATTERNS[k], text)

\* MallAgent._is_unsafe_input
IsUnsafeInput(text) ==
    LET input_lower == Lower(text)
    IN \E k \in 1..Len(BLOCKED_PATTERNS) :
          IsSubstring(Lower(BLOCKED_PATTERNS[k]), input_lower)

\* The chat messages the model sends
UserInputs ==
    { <<"N","i","k","e">>,
      <<"d","a","n","mo","shi2">>,
      <<"x","J","a","i","l","B","r","e","a","k","!">>,
      <<"qing","ban","yan","mao">> }

----------------------------------------------------------------------------
\* Tool calls as returned by the LLM: a name and a raw JSON argument string

ArgsFullRaw  == "{\"store_name\": \"Nike\", \"image_description\": \"shoe\"}"
ArgsEmptyRaw == "{}"
ArgsBadRaw   == "{\"store_name\": "
\* Parsed argument maps are sets of <<key, value>> pairs
ArgsFull  == {<<"store_name", "Nike">>, <<"image_description", "shoe">>}
ArgsEmpty == {}
NoArgs    == {<<"None", "None">>}
ArgMaps   == {ArgsFull, ArgsEmpty}

HasKey(args, k) == \E kv \in args : kv[1] = k

\* json.loads that reads an unparsable string as the empty map
JsonLoads_Lenient(raw) ==
    CASE raw = ArgsFullRaw  -> [ok |-> TRUE, value |-> ArgsFull]
      [] OTHER              -> [ok |-> TRUE, value |-> ArgsEmpty]

\* json.loads on the argument string: the parsed map, or a JSONDecodeError
JsonLoads(raw) ==
    CASE raw = ArgsFullRaw  -> [ok |-> TRUE,  value |-> ArgsFull]
      [] raw = ArgsEmptyRaw -> [ok |-> TRUE,  value |-> ArgsEmpty]
      [] OTHER              -> [ok |-> FALSE, value |-> NoArgs]

\* Names the LLM may put into a tool call; the last one is in no registry
LLMNames == {"navigate_to_store", "search_by_image", "add_to_cart", "create_order",
             "refund_order"}

\* Outcome of the retrieval service behind a tool
RagOutcomes == {"hit", "empty", "raise"}

\* MallAgent._execute_function: the payload returned, or an exception raised
ExecuteFunction(func_name, args, outcome) ==
    CASE func_name = "navigate_to_store" ->
            IF ~HasKey(args, "store_name")
            THEN [raised |-> TRUE, result |-> [success |-> FALSE, kind |-> "KeyError"]]
            ELSE IF outcome = "hit"
                 THEN [raised |-> FALSE, result |-> [success |-> TRUE, kind |-> "store"]]
                 ELSE IF outcome = "empty"
                      THEN [raised |-> FALSE, result |-> [success |-> FALSE, kind |-> "not_found"]]
                      ELSE [raised |-> FALSE, result |-> [success |-> TRUE, kind |-> "fallback"]]
      [] func_name = "search_by_image" ->
            IF outcome = "raise"
            THEN IF ~HasKey(args, "image_description")
                 THEN [raised |-> TRUE, result |-> [success |-> FALSE, kind |-> "KeyError"]]
                 ELSE [raised |-> FALSE, result |-> [success |-> TRUE, kind |-> "fallback"]]
            ELSE IF outcome = "hit"
                 THEN [raised |-> FALSE, result |-> [success |-> TRUE, kind |-> "results"]]
                 ELSE [raised |-> FALSE, result |-> [success |-> TRUE, kind |-> "no_results"]]
      [] func_name = "add_to_cart" ->
            [raised |-> FALSE, result |-> [success |-> TRUE, kind |-> "cart"]]
      [] OTHER ->
            [raised |-> FALSE, result |-> [success |-> TRUE, kind |-> "default"]]

----------------------------------------------------------------------------
\* The LLM (external collaborator): what chat_with_tools may return

max_rounds == 10

ToolCall(round, i, name, raw) ==
    [id |-> round * 10 + i, function |-> [name |-> name, arguments |-> raw]]

ToolCallLists(round, calls, maxlen) ==
    UNION { { [i \in 1..n |-> ToolCall(round, i, f[i][1], f[i][2])] :
                f \in [1..n -> calls] } : n \in 1..maxlen }

\* The <<name, arguments>> pairs a freely answering LLM chooses from
FreeCalls ==
    { <<"navigate_to_store", ArgsFullRaw>>, <<"navigate_to_store", ArgsEmptyRaw>>,
      <<"create_order", ArgsBadRaw>>,       <<"search_by_image", ArgsFullRaw>>,
      <<"refund_order", ArgsEmptyRaw>>,     <<"add_to_cart", ArgsFullRaw>>,
      <<"add_to_cart", ArgsEmptyRaw>>,      <<"create_order", ArgsFullRaw>> }

\* The round-count stub keeps the loop going with one navigate_to_store call per
\* round, or ends it with one of the other calls
StubCalls ==
    { <<"navigate_to_store", ArgsFullRaw>>, <<"navigate_to_store", ArgsBadRaw>>,
      <<"add_to_cart", ArgsFullRaw>>,       <<"create_order", ArgsFullRaw>> }

LLMModes == {"free", "stub"}

\* What chat_with_tools may return: a text, an exception, or a non-empty list of
\* tool calls ("tool_calls" is present exactly when the list is non-empty).  The
\* free LLM issues at most MaxFreeCalls tool calls in all, MaxCalls per response.
LLMResponses(mode, used, round) ==
    {[kind |-> "content", tool_calls |-> <<>>], [kind |-> "raise", tool_calls |-> <<>>]}
    \cup { [kind |-> "tool_calls", tool_calls |-> l] :
             l \in IF mode = "free"
                   THEN ToolCallLists(round, FreeCalls,
                            IF MaxCalls < MaxFreeCalls - used THEN MaxCalls
                                                              ELSE MaxFreeCalls - used)
                   ELSE ToolCallLists(round, StubCalls, 1) }

----------------------------------------------------------------------------
\* Responses of the endpoints (ChatResponse); None is "None", NoArgs or <<>>

ChatResponse(type, content, action, args, message, results) ==
    [type |-> type, content |-> content, action |-> action, args |-> args,
     message |-> message, tool_results |-> results]

NoResponse == ChatResponse("None", "None", "None", NoArgs, "None", <<>>)

\* chat / confirm_action: except Exception -> parse_llm_error -> type error
ErrorResponse == ChatResponse("error", "user_message", "None", NoArgs, "error_type", <<>>)

\* One entry of the message list; absent keys are <<>> and 0
Message(role, content, calls, id) ==
    [role |-> role, content |-> content, tool_calls |-> calls, tool_call_id |-> id]

\* json.dumps(result, ensure_ascii=False) of a tool payload
JsonDumps(payload) == payload.kind

NoConfirm == [action |-> "None", args |-> NoArgs, confirmed |-> FALSE, was_pending |-> FALSE]

TurnStates == {"Start", "Reasoning", "ToolLoop"}
Terminal   == {"Blocked", "Done", "AwaitConfirm", "AwaitHardConfirm", "Exhausted"}
\* positions in which no request is being processed
Quiescent  == {"Idle", "Failed", "ConfirmDone"} \cup Terminal

AgentInit ==
    /\ pc = "Idle"
    /\ user_input = <<>>
    /\ has_image = FALSE
    /\ tools = {}
    /\ messages = <<>>
    /\ round_count = 0
    /\ tool_results = <<>>
    /\ response = <<>>
    /\ result = NoResponse
    /\ llm_calls = 0
    /\ vision_calls = 0
    /\ executed = <<>>
    /\ completed_rounds = 0
    /\ pending = {}
    /\ last_confirm = NoConfirm
    /\ llm_mode = "free"
    /\ free_used = 0
    /\ rag = "hit"
    /\ requests = 0

\* POST /chat arrives: a new turn with fresh locals
ChatRequest ==
    /\ pc \in Quiescent
    /\ requests < MaxRequests
    /\ \E msg \in UserInputs, img \in BOOLEAN, r \in RagOutcomes, m \in LLMModes :
          /\ user_input' = msg
          /\ has_image' = img
          /\ rag' = r
          /\ llm_mode' = m
    /\ pc' = "Start"
    /\ requests' = requests + 1
    /\ tools' = {}
    /\ messages' = <<>>
    /\ round_count' = 0
    /\ tool_results' = <<>>
    /\ response' = <<>>
    /\ result' = NoResponse
    /\ llm_calls' = 0
    /\ vision_calls' = 0
    /\ executed' = <<>>
    /\ completed_rounds' = 0
    /\ last_confirm' = NoConfirm
    /\ UNCHANGED <<pending, free_used>>
    /\ UNCHANGED service_vars

\* MallAgent.process, Step 0: the safety check blocks the input
ProcessBlocked ==
    /\ pc = "Start"
    /\ IsUnsafeInput(user_input)
    /\ result' = ChatResponse("text", SAFE_RESPONSE, "None", NoArgs, "None", <<>>)
    /\ pc' = "Blocked"
    /\ UNCHANGED <<user_input, has_image, tools, messages, round_count, tool_results,
                   response, llm_calls, vision_calls, executed, completed_rounds,
                   pending, last_confirm, llm_mode, free_used, rag, requests>>
    /\ UNCHANGED service_vars

\* MallAgent._process_text
ProcessText ==
    /\ pc = "Start"
    /\ ~IsUnsafeInput(user_input)
    /\ ~has_image
    /\ messages' = <<Message("system", "SYSTEM_PROMPT", <<>>, 0),
                     Message("user", "user_input", <<>>, 0)>>
    /\ tools' = get_tools_for_context(FALSE)
    /\ round_count' = 0
    /\ tool_results' = <<>>
    /\ pc' = "Reasoning"
    /\ UNCHANGED <<user_input, has_image, response, result, llm_calls, vision_calls,
                   executed, completed_rounds, pending, last_confirm, llm_mode,
                   free_used, rag, requests>>
    /\ UNCHANGED service_vars

\* MallAgent._process_with_vision: one chat_with_vision call, then the tool loop
ProcessWithVision ==
    /\ pc = "Start"
    /\ ~IsUnsafeInput(user_input)
    /\ has_image
    /\ vision_calls' = vision_calls + 1
    /\ \/ /\ messages' = <<Message("system", "SYSTEM_PROMPT", <<>>, 0),
                           Message("user", "image_description", <<>>, 0)>>
          /\ tools' = get_tools_for_context(TRUE)
          /\ round_count' = 0
          /\ tool_results' = <<>>
          /\ pc' = "Reasoning"
          /\ UNCHANGED result
       \/ /\ pc' = "Failed"
          /\ result' = ErrorResponse
          /\ UNCHANGED <<messages, tools, round_count, tool_results>>
    /\ UNCHANGED <<user_input, has_image, response, llm_calls, executed,
                   completed_rounds, pending, last_confirm, llm_mode, free_used, rag, requests>>
    /\ UNCHANGED service_vars

\* while round_count < self.max_rounds, off by one
LoopCondition_OffByOne(rc) == rc <= max_rounds

\* while round_count < self.max_rounds
LoopCondition(rc) == rc < max_rounds

\* "tool_calls" in response, taken to hold for every response
HasToolCalls_Always(resp) == TRUE

\* "tool_calls" in response
HasToolCalls(resp) == resp.kind = "tool_calls"

\* One round: round_count += 1 and the chat_with_tools call
ChatWithTools ==
    /\ pc = "Reasoning"
    /\ LoopCondition(round_count)
    /\ round_count' = round_count + 1
    /\ llm_calls' = llm_calls + 1
    /\ \E resp \in LLMResponses(llm_mode, free_used, round_count + 1) :
          /\ free_used' = IF llm_mode = "free" THEN free_used + Len(resp.tool_calls)
                                               ELSE free_used
          /\ IF resp.kind = "raise"
             THEN \* the call raises; chat() answers with an error response
                  /\ pc' = "Failed"
                  /\ result' = ErrorResponse
                  /\ response' = <<>>
             ELSE IF ~HasToolCalls(resp)
             THEN \* no tool call: return the text
                  /\ pc' = "Done"
                  /\ result' = ChatResponse("text", "content", "None", NoArgs, "None",
                                            tool_results)
                  /\ response' = <<>>
             ELSE /\ pc' = "ToolLoop"
                  /\ response' = resp.tool_calls
                  /\ UNCHANGED result
    /\ UNCHANGED <<user_input, has_image, tools, messages, tool_results, vision_calls,
                   executed, completed_rounds, pending, last_confirm, llm_mode,
                   rag, requests>>
    /\ UNCHANGED service_vars

\* level = OPERATION_LEVELS.get(func_name, "safe"), looking at the arguments too
Level_ArgsDependent(tool_call) ==
    IF tool_call.function.name = "add_to_cart" /\ tool_call.function.arguments = ArgsEmptyRaw
    THEN "safe"
    ELSE LevelOf(tool_call.function.name)

\* func_name = tool_call["function"]["name"]; level = OPERATION_LEVELS.get(func_name, "safe")
Level(tool_call) == LevelOf(tool_call.function.name)

\* the response type of a suspended call, types swapped
PendingType_Swapped(level) ==
    IF level = "critical" THEN "confirm" ELSE "confirmation_required"

\* the response type of a suspended call
PendingType(level) ==
    IF level = "critical" THEN "confirmation_required" ELSE "confirm"

\* _get_confirmation_message / _get_confirm_message
ConfirmationMessage(level, func_name) ==
    IF level = "critical"
    THEN IF func_name = "create_order" THEN "order created, confirm payment"
                                       ELSE "this operation needs confirmation"
    ELSE IF func_name = "add_to_cart" THEN "add to cart?"
                                      ELSE "execute this operation?"

\* the dictionary returned for a gated call, the results so far left out
PendingPayload_NoResults(level, func_name, func_args, results) ==
    ChatResponse(PendingType(level), "None", func_name, func_args,
                 ConfirmationMessage(level, func_name), <<>>)

\* the dictionary returned for a gated call: its type, the call, the message asking
\* for confirmation and the tool results of the turn so far
PendingPayload(level, func_name, func_args, results) ==
    ChatResponse(PendingType(level), "None", func_name, func_args,
                 ConfirmationMessage(level, func_name), results)

\* the two messages.append calls after an executed tool call, the call's own
\* assistant message left out
ToolMessages_ToolOnly(tool_call, payload) ==
    << Message("tool", JsonDumps(payload), <<>>, tool_call.id) >>

\* the two messages.append calls after an executed tool call
ToolMessages(tool_call, payload) ==
    << Message("assistant", "None", <<tool_call>>, 0),
       Message("tool", JsonDumps(payload), <<>>, tool_call.id) >>

\* One iteration of "for tool_call in response['tool_calls']"
ToolCallStep ==
    /\ pc = "ToolLoop"
    /\ response # <<>>
    /\ LET tool_call == Head(response)
           func_name == tool_call.function.name
           parsed    == JsonLoads(tool_call.function.arguments)
           func_args == parsed.value
           level     == Level(tool_call)
       IN IF ~parsed.ok
          THEN \* json.loads raises; chat() answers with an error response
               /\ pc' = "Failed"
               /\ result' = ErrorResponse
               /\ UNCHANGED <<response, tool_results, messages, executed,
                              completed_rounds, pending>>
          ELSE IF level \in {"critical", "confirm"}
          THEN /\ pc' = IF level = "critical" THEN "AwaitHardConfirm" ELSE "AwaitConfirm"
               /\ result' = PendingPayload(level, func_name, func_args, tool_results)
               /\ pending' = pending \cup {<<func_name, func_args>>}
               /\ UNCHANGED <<response, tool_results, messages, executed, completed_rounds>>
          ELSE LET out == ExecuteFunction(func_name, func_args, rag)
               IN /\ executed' = Append(executed, [function |-> func_name, args |-> func_args])
                  /\ IF out.raised
                     THEN /\ pc' = "Failed"
                          /\ result' = ErrorResponse
                          /\ UNCHANGED <<response, tool_results, messages,
                                         completed_rounds, pending>>
                     ELSE /\ tool_results' = Append(tool_results,
                                 [function |-> func_name, args |-> func_args,
                                  result |-> out.result])
                          /\ messages' = messages \o ToolMessages(tool_call, out.result)
                          /\ response' = Tail(response)
                          /\ pc' = IF Tail(response) = <<>> THEN "Reasoning" ELSE "ToolLoop"
                          /\ completed_rounds' = IF Tail(response) = <<>>
                                                 THEN completed_rounds + 1
                                                 ELSE completed_rounds
                          /\ UNCHANGED <<result, pending>>
    /\ UNCHANGED <<user_input, has_image, tools, round_count, llm_calls, vision_calls,
                   last_confirm, llm_mode, free_used, rag, requests>>
    /\ UNCHANGED service_vars

\* The while loop ends: the round cap is reached
Exhausted ==
    /\ pc = "Reasoning"
    /\ ~LoopCondition(round_count)
    /\ pc' = "Exhausted"
    /\ result' = ChatResponse("error", "None", "None", NoArgs, TOO_LONG, tool_results)
    /\ UNCHANGED <<user_input, has_image, tools, messages, round_count, tool_results,
                   response, llm_calls, vision_calls, executed, completed_rounds,
                   pending, last_confirm, llm_mode, free_used, rag, requests>>
    /\ UNCHANGED service_vars

\* "if not request.confirmed: return", check dropped
ConfirmExecutes_Always(confirmed) == TRUE

\* confirm_action goes on to _execute_function only when request.confirmed
ConfirmExecutes(confirmed) == confirmed

\* the _execute_function calls of one confirmed request, made twice
ConfirmInvocations_Twice(action, args) ==
    <<[function |-> action, args |-> args], [function |-> action, args |-> args]>>

\* the _execute_function calls of one confirmed request
ConfirmInvocations(action, args) == <<[function |-> action, args |-> args]>>

\* POST /chat/confirm
ConfirmAction ==
    /\ pc \in Quiescent
    /\ requests < MaxRequests
    /\ requests' = requests + 1
    /\ pc' = "ConfirmDone"
    /\ llm_calls' = 0
    /\ vision_calls' = 0
    /\ \E action \in LLMNames, args \in ArgMaps, confirmed \in BOOLEAN, r \in RagOutcomes :
          /\ last_confirm' = [action |-> action, args |-> args, confirmed |-> confirmed,
                              was_pending |-> <<action, args>> \in pending]
          /\ pending' = pending \ {<<action, args>>}
          /\ IF ~ConfirmExecutes(confirmed)
             THEN /\ result' = ChatResponse("text", CANCELLED, "None", NoArgs, "None", <<>>)
                  /\ executed' = <<>>
             ELSE LET out == ExecuteFunction(action, args, r)
                  IN /\ executed' = ConfirmInvocations(action, args)
                     /\ result' =
                          IF out.raised
                          THEN ErrorResponse
                          ELSE ChatResponse("text", "confirmed", "None", NoArgs, "None",
                                 <<[function |-> action, args |-> args, result |-> out.result]>>)
    \* the locals of the last turn are gone
    /\ user_input' = <<>>
    /\ has_image' = FALSE
    /\ tools' = {}
    /\ messages' = <<>>
    /\ round_count' = 0
    /\ tool_results' = <<>>
    /\ response' = <<>>
    /\ completed_rounds' = 0
    /\ rag' = "hit"
    /\ llm_mode' = "free"
    /\ UNCHANGED free_used
    /\ UNCHANGED service_vars

----------------------------------------------------------------------------
\* Embedding service (core/rag/embedding.py)

\* Texts are sequences of characters; str.strip() removes these from both ends
Whitespace == {" ", "\n"}

RECURSIVE LStrip(_)
LStrip(s) == IF s = <<>> \/ s[1] \notin Whitespace THEN s ELSE LStrip(Tail(s))

RECURSIVE RStrip(_)
RStrip(s) ==
    IF s = <<>> \/ s[Len(s)] \notin Whitespace THEN s ELSE RStrip(SubSeq(s, 1, Len(s) - 1))

\* text.strip()
Strip(s) == RStrip(LStrip(s))

\* "not text or not text.strip()", without the strip
IsBlank_EmptyOnly(text) == text = <<>>

\* "not text or not text.strip()"
IsBlank(text) == text = <<>> \/ Strip(text) = <<>>

\* _get_cache_key: the MD5 digest of the text as it was passed in
CacheKey(text) == <<"md5", text>>

\* Embedding vectors the provider may answer with
Vectors == {<<1, 0>>, <<-1, 0>>}

\* A provider answer: the vector, and the text it was computed for
Embedding(text, vec) == [text |-> text, vec |-> vec]

\* provider.embed_text(text): raises EmbeddingError, or returns an embedding
ProviderEmbedText(text) ==
    {[raised |-> TRUE, value |-> <<>>]}
    \cup {[raised |-> FALSE, value |-> Embedding(text, v)] : v \in Vectors}

\* provider.embed_batch(texts): raises, or returns one embedding per text, in order
\* (the vectors of one answer are taken to be equal)
ProviderEmbedBatch(texts) ==
    {[raised |-> TRUE, value |-> <<>>]}
    \cup {[raised |-> FALSE, value |-> [i \in 1..Len(texts) |-> Embedding(texts[i], v)]] :
            v \in Vectors}

\* Texts passed to the embedding operations
EmbedTexts == { <<>>, <<" ">>, <<"a">>, <<" ", "a">> }

\* Texts passed in batches: an empty one, and two that differ in leading whitespace
BatchTexts == { <<>>, <<"a">>, <<" ", "a">> }

EmbedBatches == UNION {[1..n -> BatchTexts] : n \in 0..MaxBatch}

\* What an embedding operation did: its input, how it ended, what it returned and
\* what it sent to the provider
EmbeddingOp(op, input, use_cache, outcome, value, provider_inputs) ==
    [op |-> op, input |-> input, use_cache |-> use_cache, outcome |-> outcome,
     value |-> value, provider_inputs |-> provider_inputs]

NoEmbeddingOp == EmbeddingOp("None", <<>>, FALSE, "None", <<>>, <<>>)

EmptyCache == [k \in {} |-> <<>>]

\* a store that keeps the embedding the key already has
CachePut_KeepFirst(c, key, embedding) ==
    [k \in DOMAIN c \cup {key} |-> IF k \in DOMAIN c THEN c[k] ELSE embedding]

\* self._cache[cache_key] = embedding
CachePut(c, key, embedding) ==
    [k \in DOMAIN c \cup {key} |-> IF k = key THEN embedding ELSE c[k]]

\* EmbeddingService.__init__
EmbeddingInit ==
    /\ cache = EmptyCache
    /\ asked = EmptyCache
    /\ emb_last = NoEmbeddingOp

\* "cache_key in self._cache", never finding the key
CacheHit_Never(c, key) == FALSE

\* "cache_key in self._cache"
CacheHit(c, key) == key \in DOMAIN c

\* What one embed_text(text) call can do on cache c: how it ends, what it returns,
\* what it sends to the provider and the cache it leaves
EmbedTextResults(c, text, caching) ==
    LET cache_key == CacheKey(text)
    IN IF IsBlank(text)
       THEN {[outcome |-> "raise", value |-> <<>>, provider_inputs |-> <<>>, cache |-> c]}
       ELSE IF caching /\ CacheHit(c, cache_key)
       THEN {[outcome |-> "return", value |-> c[cache_key], provider_inputs |-> <<>>,
              cache |-> c]}
       ELSE {[outcome |-> IF r.raised THEN "raise" ELSE "return",
              value |-> r.value,
              provider_inputs |-> <<text>>,
              cache |-> IF caching /\ ~r.raised THEN CachePut(c, cache_key, r.value) ELSE c] :
                r \in ProviderEmbedText(text)}

\* the provider's answers to cached embed_text calls, kept until clear_cache
AskedAfter(text, caching, x) ==
    IF caching /\ x.provider_inputs # <<>>
    THEN CachePut(asked, text, [raised |-> x.outcome = "raise", value |-> x.value])
    ELSE asked

\* EmbeddingService.embed_text(text, use_cache)
EmbedText ==
    /\ \E text \in EmbedTexts, use_cache \in BOOLEAN :
          \E x \in EmbedTextResults(cache, text, use_cache /\ cache_enabled) :
             /\ emb_last' = EmbeddingOp("embed_text", text, use_cache, x.outcome, x.value,
                                        x.provider_inputs)
             /\ cache' = x.cache
             /\ asked' = AskedAfter(text, use_cache /\ cache_enabled, x)
    /\ UNCHANGED <<agent_vars, cache_enabled, chunk_vars, sync_vars, ret_vars, err_last,
                   conc_vars>>

\* valid_texts = [t for t in texts if t and t.strip()]
ValidTexts(texts) == SelectSeq(texts, LAMBDA t : ~IsBlank(t))

\* the indices (into valid_texts) of the texts still to embed
RECURSIVE TextsToEmbed(_, _, _, _)
TextsToEmbed(valid_texts, c, caching, i) ==
    IF i > Len(valid_texts) THEN <<>>
    ELSE (IF caching /\ CacheHit(c, CacheKey(valid_texts[i])) THEN <<>> ELSE <<i>>)
         \o TextsToEmbed(valid_texts, c, caching, i + 1)

\* "for idx, embedding in zip(indices, embeddings)": the cache after the loop
RECURSIVE StoreBatch(_, _, _, _, _)
StoreBatch(c, valid_texts, indices, embeddings, j) ==
    IF j > Len(indices) \/ j > Len(embeddings) THEN c
    ELSE StoreBatch(CachePut(c, CacheKey(valid_texts[indices[j]]), embeddings[j]),
                    valid_texts, indices, embeddings, j + 1)

\* the position of idx in indices (0 when absent)
IndexIn(indices, idx) ==
    IF \E j \in 1..Len(indices) : indices[j] = idx
    THEN CHOOSE j \in 1..Len(indices) : indices[j] = idx
    ELSE 0

\* "return [results[i] for i in range(len(valid_texts))]"
BatchResults(valid_texts, c, indices, embeddings) ==
    [i \in 1..Len(valid_texts) |->
        IF IndexIn(indices, i) # 0 THEN embeddings[IndexIn(indices, i)]
                                   ELSE c[CacheKey(valid_texts[i])]]

\* What one embed_batch(texts) call can do on cache c
EmbedBatchResults(c, texts, caching) ==
    LET valid_texts == ValidTexts(texts)
        indices     == TextsToEmbed(valid_texts, c, caching, 1)
        texts_list  == [j \in 1..Len(indices) |-> valid_texts[indices[j]]]
    IN IF texts = <<>>
       THEN {[outcome |-> "return", value |-> <<>>, provider_inputs |-> <<>>, cache |-> c]}
       ELSE IF valid_texts = <<>>
       THEN {[outcome |-> "raise", value |-> <<>>, provider_inputs |-> <<>>, cache |-> c]}
       ELSE IF indices = <<>>
       THEN {[outcome |-> "return", value |-> BatchResults(valid_texts, c, indices, <<>>),
              provider_inputs |-> <<>>, cache |-> c]}
       ELSE {IF r.raised
             THEN [outcome |-> "raise", value |-> <<>>, provider_inputs |-> <<texts_list>>,
                   cache |-> c]
             ELSE [outcome |-> "return",
                   value |-> BatchResults(valid_texts, c, indices, r.value),
                   provider_inputs |-> <<texts_list>>,
                   cache |-> IF caching THEN StoreBatch(c, valid_texts, indices, r.value, 1)
                                        ELSE c] :
                r \in ProviderEmbedBatch(texts_list)}

\* EmbeddingService.embed_batch(texts, use_cache)
EmbedBatch ==
    /\ \E texts \in EmbedBatches, use_cache \in BOOLEAN :
          \E x \in EmbedBatchResults(cache, texts, use_cache /\ cache_enabled) :
             /\ emb_last' = EmbeddingOp("embed_batch", texts, use_cache, x.outcome, x.value,
                                        x.provider_inputs)
             /\ cache' = x.cache
    /\ UNCHANGED <<agent_vars, cache_enabled, asked, chunk_vars, sync_vars, ret_vars, err_last,
                   conc_vars>>

\* EmbeddingService.clear_cache
ClearCache ==
    /\ cache' = EmptyCache
    /\ asked' = EmptyCache
    /\ emb_last' = EmbeddingOp("clear_cache", <<>>, FALSE, "return", <<>>, <<>>)
    /\ UNCHANGED <<agent_vars, cache_enabled, chunk_vars, sync_vars, ret_vars, err_last,
                   conc_vars>>

----------------------------------------------------------------------------
\* Text chunker (EmbeddingService.chunk_text).  Positions are counted from 0, as
\* in the source.

\* Python's reading of a slice bound i on a string of length n
SliceBound(i, n) ==
    IF i < 0 THEN (IF n + i < 0 THEN 0 ELSE n + i)
    ELSE IF i > n THEN n ELSE i

\* text[start:end]
Slice(text, start, end) ==
    LET lo == SliceBound(start, Len(text))
        hi == SliceBound(end, Len(text))
    IN IF lo >= hi THEN <<>> ELSE SubSeq(text, lo + 1, hi)

\* text.rfind(sep, start, end): the highest position of sep in text[start:end], or -1
RFind(text, sep, start, end) ==
    LET lo   == SliceBound(start, Len(text))
        hi   == SliceBound(end, Len(text))
        hits == {p \in lo..(hi - 1) : text[p + 1] = sep}
    IN IF hits = {} THEN -1 ELSE CHOOSE p \in hits : \A q \in hits : q <= p

\* the sentence terminators, in the order the loop tries them (the first three
\* are the full-width full stop, exclamation mark and question mark)
Separators == <<"fullwidth.", "fullwidth!", "fullwidth?", ".", "!", "?", "\n">>

\* "for sep in [...]: last_sep = text.rfind(sep, start, end); if last_sep > start:
\*  end = last_sep + 1; break"
RECURSIVE SentenceEnd(_, _, _, _)
SentenceEnd(text, start, end, k) ==
    IF k > Len(Separators) THEN end
    ELSE LET last_sep == RFind(text, Separators[k], start, end)
         IN IF last_sep > start THEN last_sep + 1
                                ELSE SentenceEnd(text, start, end, k + 1)

\* one iteration of the while loop: the end it settles on, the chunks after it and
\* the next start
ChunkIteration(text, start, chunks, size, overlap) ==
    LET end0  == start + size
        end   == IF end0 < Len(text) THEN SentenceEnd(text, start, end0, 1) ELSE end0
        chunk == Strip(Slice(text, start, end))
    IN [end    |-> end,
        chunks |-> IF chunk # <<>> THEN Append(chunks, chunk) ELSE chunks,
        start  |-> IF end < Len(text) THEN end - overlap ELSE end]

\* Texts given to chunk_text: every text over three characters up to MaxTextLen, and
\* two texts of 25 characters without a sentence terminator
ChunkChars == {"a", " ", "."}

Text25 == [i \in 1..25 |-> "a"]

Text25Spaced == [i \in 1..25 |-> IF i = 10 THEN " " ELSE "a"]

ChunkTexts == UNION {[1..n -> ChunkChars] : n \in 0..MaxTextLen} \cup {Text25, Text25Spaced}

\* no chunk_text call was made yet
ChunkInit ==
    /\ ck_pc = "idle"
    /\ ck_text = <<>>
    /\ ck_start = 0
    /\ ck_end = 0
    /\ ck_chunks = <<>>
    /\ ck_iter = 0

\* EmbeddingService.__init__: chunk_size and chunk_overlap, with 0 <= overlap < size
ChunkConfigs ==
    {c \in (1..MaxChunkSize) \X (0..MaxChunkSize) : c[2] < c[1]} \cup {<<10, 2>>}

\* chunk_text is called: the early returns, or the loop is entered with start = 0
ChunkText ==
    /\ ck_pc \in {"idle", "done"}
    /\ \E text \in ChunkTexts :
          /\ ck_text' = text
          /\ IF text = <<>>
             THEN ck_pc' = "done" /\ ck_chunks' = <<>>
             ELSE IF Len(text) <= chunk_size
             THEN ck_pc' = "done" /\ ck_chunks' = <<text>>
             ELSE ck_pc' = "loop" /\ ck_chunks' = <<>>
    /\ ck_start' = 0
    /\ ck_end' = 0
    /\ ck_iter' = 0
    /\ UNCHANGED <<agent_vars, embedding_vars, sync_vars, ret_vars, err_last, chunk_size, chunk_overlap,
                   conc_vars>>

\* "while start < len(text)"
WhileCondition(start, text) == start < Len(text)

\* the loop body, once
ChunkLoop ==
    /\ ck_pc = "loop"
    /\ ck_iter < MaxChunkIters
    /\ IF WhileCondition(ck_start, ck_text)
       THEN LET it == ChunkIteration(ck_text, ck_start, ck_chunks, chunk_size, chunk_overlap)
            IN /\ ck_end' = it.end
               /\ ck_chunks' = it.chunks
               /\ ck_start' = it.start
               /\ ck_iter' = ck_iter + 1
               /\ UNCHANGED ck_pc
       ELSE /\ ck_pc' = "done"
            /\ UNCHANGED <<ck_start, ck_end, ck_chunks, ck_iter>>
    /\ UNCHANGED <<agent_vars, embedding_vars, sync_vars, ret_vars, err_last, chunk_size, chunk_overlap, ck_text,
                   conc_vars>>

\* chunk_text as a whole: the loop run from start, given up after MaxChunkIters
\* iterations
RECURSIVE ChunkRun(_, _, _, _, _, _)
ChunkRun(text, start, chunks, size, overlap, iter) ==
    IF ~WhileCondition(start, text) THEN [returns |-> TRUE, chunks |-> chunks]
    ELSE IF iter >= MaxChunkIters THEN [returns |-> FALSE, chunks |-> chunks]
    ELSE LET it == ChunkIteration(text, start, chunks, size, overlap)
         IN ChunkRun(text, it.start, it.chunks, size, overlap, iter + 1)

ChunkTextResult(text, size, overlap) ==
    IF text = <<>> THEN [returns |-> TRUE, chunks |-> <<>>]
    ELSE IF Len(text) <= size THEN [returns |-> TRUE, chunks |-> <<text>>]
    ELSE ChunkRun(text, 0, <<>>, size, overlap, 0)

----------------------------------------------------------------------------
\* EmbeddingService.embed_long_text

\* Texts passed to embed_long_text
LongTexts == { <<>>, <<" ">>, <<" ", " ">>, <<"a">>, <<"a", "b">> }

\* the sum of the vectors of a list of embeddings
RECURSIVE VectorSum(_)
VectorSum(embeddings) ==
    IF embeddings = <<>> THEN <<0, 0>>
    ELSE LET rest == VectorSum(Tail(embeddings))
         IN <<embeddings[1].vec[1] + rest[1], embeddings[1].vec[2] + rest[2]>>

Sign(n) == IF n > 0 THEN 1 ELSE IF n < 0 THEN -1 ELSE 0

\* "avg = np.mean(embeddings, axis=0); norm = np.linalg.norm(avg); if norm > 0:
\*  avg = avg / norm; return avg.tolist()".  The mean of no vectors is NaN, and NaN
\* is returned; a mean of norm zero is returned as it is.  The vectors of the model
\* lie on one axis, where dividing by the norm leaves the sign.
MeanNormalized(text, embeddings) ==
    IF embeddings = <<>>
    THEN [text |-> text, vec |-> <<>>, nan |-> TRUE]
    ELSE LET sum == VectorSum(embeddings)
         IN [text |-> text, vec |-> <<Sign(sum[1]), Sign(sum[2])>>, nan |-> FALSE]

\* What one embed_long_text(text) call can do on cache c: nothing when chunk_text
\* does not return; the embed_text results for a single chunk; else the embed_batch
\* results, a returned list replaced by its normalised mean
EmbedLongTextResults(c, text, size, overlap, caching) ==
    LET chunked == ChunkTextResult(text, size, overlap)
        chunks  == chunked.chunks
    IN IF ~chunked.returns THEN {}
       ELSE IF Len(chunks) = 1
       THEN {[outcome |-> x.outcome, value |-> x.value,
              provider_inputs |-> x.provider_inputs, cache |-> x.cache,
              asked |-> AskedAfter(chunks[1], caching, x)] :
                x \in EmbedTextResults(c, chunks[1], caching)}
       ELSE {[outcome |-> x.outcome,
              value |-> IF x.outcome = "return" THEN MeanNormalized(text, x.value)
                                                ELSE <<>>,
              provider_inputs |-> x.provider_inputs, cache |-> x.cache,
              asked |-> asked] :
                x \in EmbedBatchResults(c, chunks, caching)}

\* EmbeddingService.embed_long_text(text)
EmbedLongText ==
    /\ \E text \in LongTexts :
          \E x \in EmbedLongTextResults(cache, text, chunk_size, chunk_overlap,
                                        cache_enabled) :
             /\ emb_last' = EmbeddingOp("embed_long_text", text, TRUE, x.outcome, x.value,
                                        x.provider_inputs)
             /\ cache' = x.cache
             /\ asked' = x.asked
    /\ UNCHANGED <<agent_vars, cache_enabled, chunk_vars, sync_vars, ret_vars, err_last,
                   conc_vars>>

----------------------------------------------------------------------------
\* Catalog synchronisation (DataSyncService) into the vector store (MilvusClient)

\* the synchronisations followed before the history is cleared
MaxHistory == 2

\* the collections the model follows
Collections == {"stores", "products", "locations"}

\* A StoreDocument or ProductDocument: its id and the fields of its text (the
\* description and the tags are left empty)
Doc(id, name, category) == [id |-> id, name |-> name, category |-> category, floor |-> 1]

\* (the second document has an empty name, so its text is empty)
Documents == { Doc("d1", <<"a">>, <<"b">>), Doc("d2", <<>>, <<>>) }

\* the document lists handed to a synchronisation
DocLists == UNION {[1..n -> Documents] : n \in 0..MaxBatch}

\* " ".join(parts)
RECURSIVE Join(_)
Join(parts) ==
    IF parts = <<>> THEN <<>>
    ELSE IF Len(parts) = 1 THEN parts[1]
    ELSE parts[1] \o <<" ">> \o Join(Tail(parts))

\* _build_store_text, _build_product_text: the name, then every non-empty field
BuildText(doc) ==
    Join(<<doc.name>> \o (IF doc.category # <<>> THEN <<doc.category>> ELSE <<>>))

\* the dictionary built for one document and its embedding
IndexRecord(doc, embedding) ==
    [id |-> doc.id, name |-> doc.name, category |-> doc.category, floor |-> doc.floor,
     embedding |-> embedding]

\* no collection exists
NoCollections == [name \in Collections |-> [exists |-> FALSE, records |-> <<>>]]

\* a "stores" collection left by an earlier run, holding the record of d1
StoresWithRecord ==
    [NoCollections EXCEPT !["stores"] =
        [exists |-> TRUE,
         records |-> <<IndexRecord(Doc("d1", <<"a">>, <<"b">>),
                                   Embedding(<<"a", " ", "b">>, <<1, 0>>))>>]]

\* MilvusClient.has_collection
HasCollection(m, name) == m[name].exists

\* MilvusClient.create_collection: loads the collection when it exists already
CreateCollection(m, name) ==
    IF m[name].exists THEN m
    ELSE [m EXCEPT ![name] = [exists |-> TRUE, records |-> <<>>]]

\* MilvusClient.insert: raises when the collection is missing, else appends the
\* records as they are (a primary key already present is not replaced)
Insert(m, name, data) ==
    IF ~m[name].exists THEN [raised |-> TRUE, milvus |-> m]
    ELSE [raised |-> FALSE,
          milvus |-> [m EXCEPT ![name].records = @ \o data]]

\* MilvusClient.delete that removes nothing
Delete_Nothing(m, name, ids) ==
    IF ~m[name].exists THEN [raised |-> TRUE, milvus |-> m]
    ELSE [raised |-> FALSE, milvus |-> m]

\* MilvusClient.delete: raises when the collection is missing, else removes every
\* record whose id is in ids
Delete(m, name, ids) ==
    IF ~m[name].exists THEN [raised |-> TRUE, milvus |-> m]
    ELSE [raised |-> FALSE,
          milvus |-> [m EXCEPT ![name].records =
                        SelectSeq(@, LAMBDA r : \A i \in 1..Len(ids) : ids[i] # r.id)]]

\* MilvusClient.count, 0 for a missing collection
Count(m, name) == Len(m[name].records)

\* The dictionaries read position_x, position_y and position_z of a store and of a
\* location, which a StoreDocument and a LocationDocument do not have (they have
\* position); a ProductDocument has every attribute read from it.  First, every
\* attribute being there:
MissingAttribute_None(name) == FALSE

\* the attributes read from a document of the collection are not all there
MissingAttribute(name) == name \in {"stores", "locations"}

Min(a, b) == IF a < b THEN a ELSE b

\* "for store, embedding in zip(stores, embeddings): data.append({...})": raises
\* AttributeError at the first pair when an attribute is missing
BuildData(name, docs, embeddings) ==
    LET n == Min(Len(docs), Len(embeddings))
    IN [raised |-> n > 0 /\ MissingAttribute(name),
        data   |-> [i \in 1..n |-> IndexRecord(docs[i], embeddings[i])]]

\* SyncResult
SyncResult(collection, total, inserted, updated, failed) ==
    [collection |-> collection, total |-> total, inserted |-> inserted,
     updated |-> updated, failed |-> failed]

\* How a synchronisation ends: the store and the cache it leaves, the records it
\* counted as done, the documents it counted as failed, whether the embedding
\* provider raised, and how many embed_batch calls it made
SyncOutcome(m, c, done, failed, provider_raised, embed_calls) ==
    [milvus |-> m, cache |-> c, done |-> done, failed |-> failed,
     provider_raised |-> provider_raised, embed_calls |-> embed_calls]

\* "texts = [...]; embeddings = await embed_batch(texts); data = ...;
\*  await insert(name, data); inserted = len(data)", any exception caught
EmbedAndInsert(name, docs, m, c, caching) ==
    LET texts == [i \in 1..Len(docs) |-> BuildText(docs[i])]
    IN { IF x.outcome = "raise"
         THEN SyncOutcome(m, x.cache, 0, Len(docs), x.provider_inputs # <<>>, 1)
         ELSE LET built == BuildData(name, docs, x.value)
                  ins   == Insert(m, name, built.data)
              IN IF built.raised \/ ins.raised
                 THEN SyncOutcome(m, x.cache, 0, Len(docs), FALSE, 1)
                 ELSE SyncOutcome(ins.milvus, x.cache, Len(built.data), 0, FALSE, 1) :
            x \in EmbedBatchResults(c, texts, caching) }

\* full_sync_stores, full_sync_products.  "await client.has_collection(name)" first
\* calls the method; awaiting what a synchronous method returned raises TypeError,
\* which "except Exception" turns into failed = len(stores).
FullSyncResults(name, docs, m, c, caching, aw) ==
    IF ~aw THEN {SyncOutcome(m, c, 0, Len(docs), FALSE, 0)}
    ELSE EmbedAndInsert(name, docs,
                        IF HasCollection(m, name) THEN m ELSE CreateCollection(m, name),
                        c, caching)

Operations == {"upsert", "delete"}

\* incremental_sync_stores: the delete is made by the call, before its result is
\* awaited
IncrementalSyncResults(docs, operation, m, c, caching, aw) ==
    LET ids     == [i \in 1..Len(docs) |-> docs[i].id]
        deleted == Delete(m, "stores", ids)
    IN IF deleted.raised THEN {SyncOutcome(m, c, 0, Len(docs), FALSE, 0)}
       ELSE IF ~aw THEN {SyncOutcome(deleted.milvus, c, 0, Len(docs), FALSE, 0)}
       ELSE IF operation = "delete"
       THEN {SyncOutcome(deleted.milvus, c, Len(ids), 0, FALSE, 0)}
       ELSE EmbedAndInsert("stores", docs, deleted.milvus, c, caching)

\* What the last synchronisation was: the method, its collection, its operation,
\* its documents, its result, whether the provider raised, the record count it
\* found, and how many times in a row (up to 2) the same method was applied to the
\* same ids
Sync(op, collection, operation, docs, sync_result, provider_raised, embed_calls, count_before, applied) ==
    [op |-> op, collection |-> collection, operation |-> operation, stores |-> docs,
     result |-> sync_result, provider_raised |-> provider_raised,
     embed_calls |-> embed_calls,
     count_before |-> count_before, applied |-> applied]

NoSync == Sync("None", "None", "None", <<>>, SyncResult("None", 0, 0, 0, 0), FALSE, 0, 0, 0)

DocIds(docs) == {docs[i].id : i \in 1..Len(docs)}

\* how many times in a row the method is applied to the ids, the synchronisation
\* before it being last
AppliedAfter(last, op, collection, operation, docs) ==
    IF /\ last.op = op
       /\ last.collection = collection
       /\ last.operation = operation
       /\ DocIds(last.stores) = DocIds(docs)
    THEN Min(last.applied + 1, 2)
    ELSE 1

Applied(op, collection, operation, docs) ==
    AppliedAfter(sync_last, op, collection, operation, docs)

\* the seed documents (seed_data.py), one of each kind; a location's text is its
\* name and its type
SEED_STORES == << Doc("d1", <<"a">>, <<"b">>) >>
SEED_PRODUCTS == << Doc("d1", <<"a">>, <<"b">>) >>
SEED_LOCATIONS == << Doc("l1", <<"a">>, <<"c">>) >>

\* What the last trigger was, and how many there have been
Trigger(collections, results, n) ==
    [collections |-> collections, results |-> results, n |-> n]

NoTrigger == Trigger({}, <<>>, 0)

\* no synchronisation service is at work
SyncIdle ==
    /\ awaitable = FALSE
    /\ milvus = NoCollections
    /\ sync_last = NoSync
    /\ sync_history = <<>>
    /\ trigger_last = NoTrigger

\* DataSyncService.__init__ with the client it is given or creates, over a store
\* that is empty or was filled by an earlier run
SyncInit ==
    /\ awaitable \in BOOLEAN
    /\ milvus \in {NoCollections, StoresWithRecord}
    /\ sync_last = NoSync
    /\ sync_history = <<>>
    /\ trigger_last = NoTrigger

\* a full synchronisation of the collection name
FullSync(name) ==
    \E docs \in DocLists :
       \E x \in FullSyncResults(name, docs, milvus, cache, cache_enabled, awaitable) :
          /\ Len(sync_history) < MaxHistory
          /\ Count(x.milvus, name) <= MaxRecords
          /\ milvus' = x.milvus
          /\ cache' = x.cache
          /\ sync_history' = Append(sync_history,
                                    SyncResult(name, Len(docs), x.done, 0, x.failed))
          /\ sync_last' = Sync("full_sync", name, "None", docs,
                               SyncResult(name, Len(docs), x.done, 0, x.failed),
                               x.provider_raised, x.embed_calls, Count(milvus, name),
                               Applied("full_sync", name, "None", docs))

\* DataSyncService.full_sync_stores(stores)
FullSyncStores ==
    /\ FullSync("stores")
    /\ UNCHANGED <<agent_vars, cache_enabled, asked, emb_last, chunk_vars, awaitable, trigger_last,
                   ret_vars, err_last,
                   conc_vars>>

\* DataSyncService.full_sync_products(products)
FullSyncProducts ==
    /\ FullSync("products")
    /\ UNCHANGED <<agent_vars, cache_enabled, asked, emb_last, chunk_vars, awaitable, trigger_last,
                   ret_vars, err_last,
                   conc_vars>>

\* DataSyncService.incremental_sync_stores(stores, operation)
IncrementalSyncStores ==
    /\ Len(sync_history) < MaxHistory
    /\ \E docs \in DocLists, operation \in Operations :
          \E x \in IncrementalSyncResults(docs, operation, milvus, cache, cache_enabled,
                                          awaitable) :
             /\ Count(x.milvus, "stores") <= MaxRecords
             /\ milvus' = x.milvus
             /\ cache' = x.cache
             /\ sync_history' = Append(sync_history,
                                       SyncResult("stores", Len(docs), 0, x.done, x.failed))
             /\ sync_last' = Sync("incremental_sync", "stores", operation, docs,
                                  SyncResult("stores", Len(docs), 0, x.done, x.failed),
                                  x.provider_raised, x.embed_calls,
                                  Count(milvus, "stores"),
                                  Applied("incremental_sync", "stores", operation, docs))
    /\ UNCHANGED <<agent_vars, cache_enabled, asked, emb_last, chunk_vars, awaitable, trigger_last,
                   ret_vars, err_last,
                   conc_vars>>

\* one "if docs: result = await self.full_sync_X(docs); results.append(result)" of
\* full_sync_all that leaves a failed synchronisation out of the results
AfterSync_SkipFailed(name, docs, s, caching, aw) ==
    IF docs = <<>> THEN {s}
    ELSE { LET sync_result == SyncResult(name, Len(docs), x.done, 0, x.failed)
           IN [milvus |-> x.milvus, cache |-> x.cache,
               results |-> IF x.failed > 0 THEN s.results
                                           ELSE Append(s.results, sync_result),
               last |-> Sync("full_sync", name, "None", docs, sync_result,
                             x.provider_raised, x.embed_calls, Count(s.milvus, name),
                             AppliedAfter(s.last, "full_sync", name, "None", docs))] :
             x \in FullSyncResults(name, docs, s.milvus, s.cache, caching, aw) }

\* one "if docs: result = await self.full_sync_X(docs); results.append(result)" of
\* full_sync_all, from the store, the cache and the results s so far
AfterSync(name, docs, s, caching, aw) ==
    IF docs = <<>> THEN {s}
    ELSE { LET sync_result == SyncResult(name, Len(docs), x.done, 0, x.failed)
           IN [milvus |-> x.milvus, cache |-> x.cache,
               results |-> Append(s.results, sync_result),
               last |-> Sync("full_sync", name, "None", docs, sync_result,
                             x.provider_raised, x.embed_calls, Count(s.milvus, name),
                             AppliedAfter(s.last, "full_sync", name, "None", docs))] :
             x \in FullSyncResults(name, docs, s.milvus, s.cache, caching, aw) }

\* DataSyncService.full_sync_all: stores, then products, then locations
FullSyncAllResults(stores, products, locations, m, c, last, caching, aw) ==
    LET s0 == [milvus |-> m, cache |-> c, results |-> <<>>, last |-> last]
    IN UNION { UNION { AfterSync("locations", locations, s2, caching, aw) :
                          s2 \in AfterSync("products", products, s1, caching, aw) } :
                  s1 \in AfterSync("stores", stores, s0, caching, aw) }

\* request.collections of POST /sync/trigger: None or a list of collection names
TriggerCollections == SUBSET Collections

\* POST /sync/trigger: the seed documents of the collections asked for (of all three
\* when none is named) go through full_sync_all; every full_sync_X appends its result
\* to the history
TriggerSync ==
    /\ Len(sync_history) < MaxHistory
    /\ \E asked_for \in TriggerCollections :
          LET collections == IF asked_for = {} THEN Collections ELSE asked_for
              stores      == IF "stores" \in collections THEN SEED_STORES ELSE <<>>
              products    == IF "products" \in collections THEN SEED_PRODUCTS ELSE <<>>
              locations   == IF "locations" \in collections THEN SEED_LOCATIONS ELSE <<>>
          IN \E x \in FullSyncAllResults(stores, products, locations, milvus, cache,
                                         sync_last, cache_enabled, awaitable) :
                /\ \A name \in Collections : Count(x.milvus, name) <= MaxRecords
                /\ milvus' = x.milvus
                /\ cache' = x.cache
                /\ sync_last' = x.last
                /\ sync_history' = sync_history \o x.results
                /\ trigger_last' = Trigger(asked_for, x.results, trigger_last.n + 1)
    /\ UNCHANGED <<agent_vars, cache_enabled, asked, emb_last, chunk_vars, awaitable,
                   ret_vars, err_last,
                   conc_vars>>

----------------------------------------------------------------------------
\* Retrieval: RAGService (service.py) over SmartMallRetriever (retriever.py).
\* Scores and thresholds are counted in hundredths.

RAG_TOP_K == 5
RAG_SCORE_THRESHOLD == 60

\* An optional argument is <<>> for None and <<v>> for the value v.
\* "x or default": the default stands in for None and for every falsy value
OrDefault(x, default) == IF x = <<>> \/ x[1] = 0 THEN default ELSE x[1]

\* one condition of a filter expression, as Milvus reads it
Condition(field, op, value) == [field |-> field, op |-> op, value |-> value]

BuildFilterExpr_Truthy(category, floor, min_price, max_price, brand) ==
    (IF category # <<>> /\ category[1] # <<>>
        THEN <<Condition("category", "==", category[1])>> ELSE <<>>)
    \o (IF floor # <<>> /\ floor[1] # 0
        THEN <<Condition("floor", "==", floor[1])>> ELSE <<>>)
    \o (IF min_price # <<>> /\ min_price[1] # 0
        THEN <<Condition("price", ">=", min_price[1])>> ELSE <<>>)
    \o (IF max_price # <<>> /\ max_price[1] # 0
        THEN <<Condition("price", "<=", max_price[1])>> ELSE <<>>)
    \o (IF brand # <<>> /\ brand[1] # <<>>
        THEN <<Condition("brand", "==", brand[1])>> ELSE <<>>)

\* build_filter_expr: the conditions in the order they are appended, joined by
\* " and "; None (<<>>) when there is none
BuildFilterExpr(category, floor, min_price, max_price, brand) ==
    (IF category # <<>> /\ category[1] # <<>>
        THEN <<Condition("category", "==", category[1])>> ELSE <<>>)
    \o (IF floor # <<>> THEN <<Condition("floor", "==", floor[1])>> ELSE <<>>)
    \o (IF min_price # <<>> THEN <<Condition("price", ">=", min_price[1])>> ELSE <<>>)
    \o (IF max_price # <<>> THEN <<Condition("price", "<=", max_price[1])>> ELSE <<>>)
    \o (IF brand # <<>> /\ brand[1] # <<>>
        THEN <<Condition("brand", "==", brand[1])>> ELSE <<>>)

\* the records of a catalog that is in the store already
StoreRecord(id, name, category, floor, vec) ==
    [id |-> id, name |-> name, category |-> category, floor |-> floor,
     embedding |-> Embedding(name, vec)]

ProductRecord(id, name, category, brand, price, vec) ==
    [id |-> id, name |-> name, category |-> category, brand |-> brand, price |-> price,
     embedding |-> Embedding(name, vec)]

Catalog ==
    [NoCollections EXCEPT
        !["stores"] = [exists |-> TRUE,
                       records |-> << StoreRecord("s1", <<"b">>, <<"c">>, 2, <<3, 4>>),
                                      StoreRecord("s2", <<"a">>, <<"c">>, 1, <<1, 0>>),
                                      StoreRecord("s3", <<"c">>, <<"d">>, 2, <<4, 3>>) >>],
        !["products"] = [exists |-> TRUE,
                         records |-> << ProductRecord("p1", <<"b">>, <<"c">>, <<"b">>, 1, <<3, 4>>),
                                        ProductRecord("p2", <<"a">>, <<"c">>, <<"b">>, 4, <<1, 0>>),
                                        ProductRecord("p3", <<"c">>, <<"d">>, <<>>, 9, <<5, 12>>) >>]]

Dot(a, b) == a[1] * b[1] + a[2] * b[2]

Norm(v) == CHOOSE n \in 0..13 : n * n = Dot(v, v)

\* the COSINE metric of the collections
Score(q, e) == (100 * Dot(q, e)) \div (Norm(q) * Norm(e))

\* a record satisfies a filter expression
Matches(r, expr) ==
    \A i \in 1..Len(expr) :
        IF expr[i].op = "==" THEN r[expr[i].field] = expr[i].value
        ELSE IF expr[i].op = ">=" THEN r[expr[i].field] >= expr[i].value
        ELSE r[expr[i].field] <= expr[i].value

\* what the store hands back for one record: the scalar output fields and the score
Hit(r, q) ==
    [id |-> r.id, distance |-> Score(q, r.embedding.vec),
     entity |-> [f \in DOMAIN r \ {"embedding"} |-> r[f]]]

RECURSIVE InsertByDistance(_, _)
InsertByDistance(sorted, h) ==
    IF sorted = <<>> THEN <<h>>
    ELSE IF Head(sorted).distance >= h.distance
    THEN <<Head(sorted)>> \o InsertByDistance(Tail(sorted), h)
    ELSE <<h>> \o sorted

RECURSIVE RankByDistance(_)
RankByDistance(hits) ==
    IF hits = <<>> THEN <<>>
    ELSE InsertByDistance(RankByDistance(SubSeq(hits, 1, Len(hits) - 1)), hits[Len(hits)])

Take_All(seq, n) == seq

\* seq[:n]
Take(seq, n) == SubSeq(seq, 1, Min(n, Len(seq)))

\* The vector search of the store: raises when the collection is missing, else
\* the limit best records that satisfy expr, best first
StoreSearch(m, name, q, limit, expr) ==
    IF ~m[name].exists THEN [raised |-> TRUE, hits |-> <<>>]
    ELSE LET matching == SelectSeq(m[name].records, LAMBDA r : Matches(r, expr))
             hits     == [i \in 1..Len(matching) |-> Hit(matching[i], q)]
         IN [raised |-> FALSE, hits |-> Take(RankByDistance(hits), limit)]

\* _parse_hit
ParseHit(hit) == [id |-> hit.entity.id, score |-> hit.distance, metadata |-> hit.entity]

RECURSIVE InsertByScore(_, _)
InsertByScore(sorted, h) ==
    IF sorted = <<>> THEN <<h>>
    ELSE IF Head(sorted).score >= h.score
    THEN <<Head(sorted)>> \o InsertByScore(Tail(sorted), h)
    ELSE <<h>> \o sorted

\* results.sort(key=lambda x: x.score, reverse=True)
RECURSIVE SortByScore(_)
SortByScore(results) ==
    IF results = <<>> THEN <<>>
    ELSE InsertByScore(SortByScore(SubSeq(results, 1, Len(results) - 1)),
                       results[Len(results)])

\* How a search ends: the documents returned, whether the store was asked and
\* what it answered, and the embedding cache and the provider record left behind
SearchOutcome(results, store_asked, store_result, e, a) ==
    [results |-> results, store_asked |-> store_asked, store_result |-> store_result,
     provider_inputs |-> e.provider_inputs, cache |-> e.cache, asked |-> a]

\* SmartMallRetriever._aget_relevant_documents, with _search_milvus: every exception
\* ends the search with [].  _get_output_fields subscripts the CollectionSchema.
\* The application's own MilvusClient.search has no parameter query_vectors or
\* filter_expr, so calling it raises TypeError; a client given to the service that
\* takes these arguments and can be awaited is asked.
RetrieverSearch(name, query, expr, top_k, score_threshold, m, c, caching, aw, sub) ==
    { IF e.outcome = "raise" \/ ~sub \/ ~aw
      THEN SearchOutcome(<<>>, FALSE, <<>>, e, AskedAfter(query, caching, e))
      ELSE LET raw == StoreSearch(m, name, e.value.vec, top_k, expr)
               results == Take(SortByScore([i \in 1..Len(raw.hits) |-> ParseHit(raw.hits[i])]),
                               top_k)
           IN IF raw.raised THEN SearchOutcome(<<>>, TRUE, <<>>, e, AskedAfter(query, caching, e))
              ELSE SearchOutcome(SelectSeq(results, LAMBDA r : r.score >= score_threshold),
                                 TRUE, raw.hits, e, AskedAfter(query, caching, e)) :
        e \in EmbedTextResults(c, query, caching) }

\* RAGService.search_stores / search_products: "top_k = top_k or settings.RAG_TOP_K;
\* score_threshold = score_threshold or settings.RAG_SCORE_THRESHOLD", and the same
\* once more in SmartMallRetriever.__init__
ServiceSearch(name, query, expr, top_k, score_threshold, m, c, caching, aw, sub) ==
    RetrieverSearch(name, query, expr,
                    OrDefault(<<OrDefault(top_k, RAG_TOP_K)>>, RAG_TOP_K),
                    OrDefault(<<OrDefault(score_threshold, RAG_SCORE_THRESHOLD)>>,
                              RAG_SCORE_THRESHOLD),
                    m, c, caching, aw, sub)

\* the structural filters of a search, each optional
Filters(category, floor, min_price, max_price, brand) ==
    [category |-> category, floor |-> floor, min_price |-> min_price,
     max_price |-> max_price, brand |-> brand]

NoFilters == Filters(<<>>, <<>>, <<>>, <<>>, <<>>)

\* What the last retrieval was
Retrieval(op, query, filters, top_k, score_threshold, expr, searches, store_result, results, include, max_context_length, full_context, context) ==
    [op |-> op, query |-> query, filters |-> filters, top_k |-> top_k,
     score_threshold |-> score_threshold, expr |-> expr, searches |-> searches,
     store_result |-> store_result, results |-> results, include |-> include,
     max_context_length |-> max_context_length, full_context |-> full_context,
     context |-> context]

\* the searches made by a call: of "stores" and of "products"
Searches(stores, products) == [stores |-> stores, products |-> products]

Include(stores, products) == [stores |-> stores, products |-> products]

NoRetrieval ==
    [op |-> "None", query |-> <<>>, filters |-> NoFilters, top_k |-> <<>>,
     score_threshold |-> <<>>, expr |-> <<>>, searches |-> Searches(0, 0),
     store_result |-> <<>>, results |-> <<>>, include |-> Include(FALSE, FALSE),
     max_context_length |-> 0, full_context |-> <<>>, context |-> <<>>]

\* no retrieval was made
RetrievalIdle ==
    /\ subscriptable = FALSE
    /\ ret_last = NoRetrieval

\* RAGService.__init__, over a store that holds a catalog
RetrievalInit ==
    /\ awaitable \in BOOLEAN
    /\ subscriptable \in BOOLEAN
    /\ milvus = Catalog
    /\ sync_last = NoSync
    /\ sync_history = <<>>
    /\ trigger_last = NoTrigger
    /\ ret_last = NoRetrieval

\* the arguments of the searches
Queries == { <<"a">>, <<>> }
Categories == { <<>>, << <<"c">> >> }
Floors == { <<>>, <<2>> }
Brands == { <<>>, << <<"b">> >> }
MinPrices == { <<>>, <<0>>, <<5>> }
MaxPrices == { <<>>, <<5>> }
TopKs == { <<>>, <<2>> }
Thresholds == { <<>>, <<0>>, <<70>> }

\* RAGService.search_stores(query, category, floor, top_k, score_threshold)
SearchStores ==
    /\ \E query \in Queries, category \in Categories, floor \in Floors,
          top_k \in TopKs, score_threshold \in Thresholds :
          LET expr == BuildFilterExpr(category, floor, <<>>, <<>>, <<>>)
          IN \E x \in ServiceSearch("stores", query, expr, top_k, score_threshold, milvus,
                                    cache, cache_enabled, awaitable, subscriptable) :
                /\ ret_last' = Retrieval("search_stores", query,
                                         Filters(category, floor, <<>>, <<>>, <<>>),
                                         top_k, score_threshold, expr,
                                         Searches(IF x.store_asked THEN 1 ELSE 0, 0),
                                         x.store_result, x.results, Include(TRUE, FALSE),
                                         0, <<>>, <<>>)
                /\ cache' = x.cache
                /\ asked' = x.asked
    /\ UNCHANGED <<agent_vars, cache_enabled, emb_last, chunk_vars, sync_vars, subscriptable,
                   err_last,
                   conc_vars>>

\* RAGService.search_products(query, category, brand, min_price, max_price, top_k,
\* score_threshold)
SearchProducts ==
    /\ \E query \in Queries, category \in Categories, brand \in Brands,
          min_price \in MinPrices, max_price \in MaxPrices,
          top_k \in TopKs, score_threshold \in Thresholds :
          LET expr == BuildFilterExpr(category, <<>>, min_price, max_price, brand)
          IN \E x \in ServiceSearch("products", query, expr, top_k, score_threshold, milvus,
                                    cache, cache_enabled, awaitable, subscriptable) :
                /\ ret_last' = Retrieval("search_products", query,
                                         Filters(category, <<>>, min_price, max_price, brand),
                                         top_k, score_threshold, expr,
                                         Searches(0, IF x.store_asked THEN 1 ELSE 0),
                                         x.store_result, x.results, Include(FALSE, TRUE),
                                         0, <<>>, <<>>)
                /\ cache' = x.cache
                /\ asked' = x.asked
    /\ UNCHANGED <<agent_vars, cache_enabled, emb_last, chunk_vars, sync_vars, subscriptable,
                   err_last,
                   conc_vars>>

\* str(n) of a one-digit number
Digit(n) == <<"0", "1", "2", "3", "4", "5", "6", "7", "8", "9">>[n + 1]

\* The stores section of the context: the heading, then per store
\* f"{i}. {name}（{category}）- {floor}楼{area}\n"; the records have no area and
\* no description.  The heading is written with three characters and a newline.
RECURSIVE StoreLines(_, _)
StoreLines(stores, i) ==
    IF i > Len(stores) THEN <<>>
    ELSE <<Digit(i), ".", " ">> \o stores[i].metadata.name
         \o <<"(">> \o stores[i].metadata.category
         \o <<")", "-", Digit(stores[i].metadata.floor), "F", "\n">>
         \o StoreLines(stores, i + 1)

StoreContext(stores) == <<"[", "S", "]", "\n">> \o StoreLines(stores, 1)

\* The products section: per product f"{i}. {name}", "（{brand}）" when there is a
\* brand, f" - ¥{price}" with the price a float, and a newline
RECURSIVE ProductLines(_, _)
ProductLines(products, i) ==
    IF i > Len(products) THEN <<>>
    ELSE <<Digit(i), ".", " ">> \o products[i].metadata.name
         \o (IF products[i].metadata.brand # <<>>
                THEN <<"(">> \o products[i].metadata.brand \o <<")">> ELSE <<>>)
         \o <<" ", "-", " ", "Y", Digit(products[i].metadata.price), ".", "0", "\n">>
         \o ProductLines(products, i + 1)

ProductContext(products) == <<"[", "P", "]", "\n">> \o ProductLines(products, 1)

\* "\n".join(context_parts)
RECURSIVE JoinLines(_)
JoinLines(parts) ==
    IF parts = <<>> THEN <<>>
    ELSE IF Len(parts) = 1 THEN parts[1]
    ELSE parts[1] \o <<"\n">> \o JoinLines(Tail(parts))

Truncate_ToLimit(context, max_context_length) ==
    IF Len(context) > max_context_length
    THEN SubSeq(context, 1, max_context_length - 3) \o <<".", ".", ".">>
    ELSE context

\* context[:max_context_length] + "..." when the context is longer than the limit
Truncate(context, max_context_length) ==
    IF Len(context) > max_context_length
    THEN SubSeq(context, 1, max_context_length) \o <<".", ".", ".">>
    ELSE context

MaxContextLengths == { 0, 10, 2000 }

\* a section that was not asked for makes no search
NotSearched(c) ==
    [results |-> <<>>, store_asked |-> FALSE, store_result |-> <<>>,
     provider_inputs |-> <<>>, cache |-> c, asked |-> asked]

\* RAGService.get_context_for_query(query, include_stores, include_products,
\* max_context_length): search_stores(query, top_k=3), then
\* search_products(query, top_k=5), each only for an included section
GetContextForQuery ==
    /\ \E query \in Queries, include_stores \in BOOLEAN, include_products \in BOOLEAN,
          max_context_length \in MaxContextLengths :
          \E s \in IF include_stores
                   THEN ServiceSearch("stores", query, <<>>, <<3>>, <<>>, milvus, cache,
                                      cache_enabled, awaitable, subscriptable)
                   ELSE {NotSearched(cache)} :
             \E p \in IF include_products
                      THEN ServiceSearch("products", query, <<>>, <<5>>, <<>>, milvus,
                                         s.cache, cache_enabled, awaitable, subscriptable)
                      ELSE {NotSearched(s.cache)} :
                LET context_parts ==
                        (IF s.results # <<>> THEN <<StoreContext(s.results)>> ELSE <<>>)
                        \o (IF p.results # <<>> THEN <<ProductContext(p.results)>> ELSE <<>>)
                    context == JoinLines(context_parts)
                IN /\ ret_last' = Retrieval("get_context_for_query", query, NoFilters,
                                            <<>>, <<>>, <<>>,
                                            Searches(IF s.store_asked THEN 1 ELSE 0,
                                                     IF p.store_asked THEN 1 ELSE 0),
                                            <<>>, <<>>,
                                            Include(include_stores, include_products),
                                            max_context_length, context,
                                            Truncate(context, max_context_length))
                   /\ cache' = p.cache
                   /\ asked' = IF cache_enabled /\ p.provider_inputs # <<>>
                               THEN p.asked ELSE s.asked
    /\ UNCHANGED <<agent_vars, cache_enabled, emb_last, chunk_vars, sync_vars, subscriptable,
                   err_last,
                   conc_vars>>

\* RAGService.navigate_to_store(store_name): search_stores(store_name, top_k=1);
\* None when the search returns nothing, else the first store
NavigateToStore ==
    /\ \E store_name \in Queries :
          \E x \in ServiceSearch("stores", store_name, <<>>, <<1>>, <<>>, milvus, cache,
                                 cache_enabled, awaitable, subscriptable) :
             /\ ret_last' = Retrieval("navigate_to_store", store_name, NoFilters, <<1>>, <<>>,
                                      <<>>, Searches(IF x.store_asked THEN 1 ELSE 0, 0),
                                      x.store_result, x.results, Include(TRUE, FALSE),
                                      0, <<>>, <<>>)
             /\ cache' = x.cache
             /\ asked' = x.asked
    /\ UNCHANGED <<agent_vars, cache_enabled, emb_last, chunk_vars, sync_vars, subscriptable,
                   err_last,
                   conc_vars>>

----------------------------------------------------------------------------
\* Coroutines running at the same time: the event loop runs one coroutine until it
\* awaits something that is not ready, then another

\* the incremental_sync_stores calls followed
UpsertTasks == {1, 2}

\* the store lists handed to an upsert
UpsertLists == {docs \in DocLists : docs # <<>>}

\* Where an incremental_sync_stores(stores, "upsert") call is: not made ("idle"),
\* suspended in "await delete" ("deleted") or in "await insert" ("inserted"), or
\* returned ("done"); its locals; the record count it found, whether another call
\* was suspended when it was made, and what made it fail
NoUpsert ==
    [pc |-> "idle", docs |-> <<>>, updated |-> 0, result |-> SyncResult("None", 0, 0, 0, 0),
     provider_raised |-> FALSE, embed_calls |-> 0, count_before |-> 0,
     overlapped |-> FALSE, cause |-> "None"]

UpsertSuspended(t) == up_tasks[t].pc \in {"deleted", "inserted"}

\* the hits of a search that carry the id: the records of the collection with it
HitsWithId(m, id) ==
    IF ~m["stores"].exists THEN 0
    ELSE Cardinality({i \in 1..Len(m["stores"].records) : m["stores"].records[i].id = id})

\* What a search for an id saw
Seen(id, count, during, after) ==
    [id |-> id, count |-> count, during |-> during, after |-> after]

NoSeen == Seen("None", 0, {}, {})

\* the embed_text calls followed
EmbedTasks == {1, 2, 3}

\* Where an embed_text(text, use_cache) call is: not made ("idle"), suspended in
\* "await self.provider.embed_text" ("awaiting"), or ended ("done"); its locals;
\* whether it called the provider, the place of its store among the stores made to
\* the cache (0 for none), and the calls for the same text that had returned, having
\* used the cache, when it was made
NoEmbedTask ==
    [pc |-> "idle", text |-> <<>>, use_cache |-> FALSE, outcome |-> "None", value |-> <<>>,
     called |-> FALSE, seq |-> 0, after |-> {}]

\* the chat turns followed
Turns == {1, 2}

\* What the LLM answers in the rounds of a turn: a text, an exception, one
\* navigate_to_store call, a navigate_to_store and a search_by_image call, or a
\* navigate_to_store and an add_to_cart call; a text from the third round on
ScriptKinds == {"content", "raise", "navigate", "two", "cart"}
TurnScripts == [1..2 -> ScriptKinds]

\* the texts of the turns (none of them blocked by the safety check)
TurnInputs == {"q1", "q2"}

\* the outcomes of the retrieval service behind the tools of a turn
TurnRagOutcomes == {"hit", "raise"}

\* Where a turn is: not started ("Idle"), suspended in "await chat_with_tools"
\* ("Reasoning") or in "await _execute_function" ("ToolLoop"), or ended; the locals
\* of its coroutine; its inputs; whether another turn was suspended during one of
\* its steps
NoTurn ==
    [pc |-> "Idle", turn |-> 0, input |-> "None", script |-> <<>>, rag |-> "None",
     messages |-> <<>>, round_count |-> 0, tool_results |-> <<>>, response |-> <<>>,
     result |-> NoResponse, overlapped |-> FALSE]

TurnSuspended(l) == l.pc \in {"Reasoning", "ToolLoop"}

\* no coroutine is followed
ConcIdle ==
    /\ up_tasks = [t \in UpsertTasks |-> NoUpsert]
    /\ seen = NoSeen
    /\ emb_tasks = [t \in EmbedTasks |-> NoEmbedTask]
    /\ turns = [t \in Turns |-> NoTurn]

\* "except Exception: failed = len(stores)" or the end of the try block, then
\* "result = SyncResult(...); self._sync_history.append(result); return result"
UpsertReturns(t, task, updated, failed, cause) ==
    LET sync_result == SyncResult("stores", Len(task.docs), 0, updated, failed)
    IN /\ up_tasks' = [up_tasks EXCEPT ![t] = [task EXCEPT !.pc = "done",
                                                          !.updated = updated,
                                                          !.result = sync_result,
                                                          !.cause = cause]]
       /\ sync_history' = Append(sync_history, sync_result)
       /\ sync_last' = Sync("incremental_sync", "stores", "upsert", task.docs, sync_result,
                            task.provider_raised, task.embed_calls, task.count_before,
                            Applied("incremental_sync", "stores", "upsert", task.docs))

\* incremental_sync_stores(stores, "upsert") up to "await self.milvus_client.delete":
\* the delete is made by the call; awaiting what a synchronous method returned
\* raises TypeError
UpsertStart ==
    /\ \E t \in UpsertTasks, docs \in UpsertLists :
          LET ids     == [i \in 1..Len(docs) |-> docs[i].id]
              deleted == Delete(milvus, "stores", ids)
              task    == [NoUpsert EXCEPT !.docs = docs,
                                          !.count_before = Count(milvus, "stores"),
                                          !.overlapped = \E u \in UpsertTasks : UpsertSuspended(u)]
          IN /\ up_tasks[t].pc = "idle"
             /\ milvus' = deleted.milvus
             /\ IF deleted.raised
                THEN UpsertReturns(t, task, 0, Len(docs), "collection")
                ELSE IF ~awaitable
                THEN UpsertReturns(t, task, 0, Len(docs), "await")
                ELSE /\ up_tasks' = [up_tasks EXCEPT ![t] = [task EXCEPT !.pc = "deleted"]]
                     /\ UNCHANGED <<sync_last, sync_history>>
    /\ UNCHANGED <<agent_vars, embedding_vars, chunk_vars, awaitable, trigger_last,
                   ret_vars, err_last, seen, emb_tasks, turns>>

\* incremental_sync_stores resumed.  After the delete: "texts = [...]; embeddings =
\* await embed_batch(texts); data = [...]; await self.milvus_client.insert("stores",
\* data)", the insert being made by the call (the provider's await falls in between;
\* nothing is written to the store before it).  After the insert:
\* "updated = len(data)" and the return.
UpsertStep ==
    /\ \E t \in UpsertTasks :
          LET task  == up_tasks[t]
              texts == [i \in 1..Len(task.docs) |-> BuildText(task.docs[i])]
          IN /\ UpsertSuspended(t)
             /\ IF task.pc = "inserted"
                THEN /\ UpsertReturns(t, task, task.updated, 0, "None")
                     /\ UNCHANGED <<milvus, cache>>
                ELSE \E x \in EmbedBatchResults(cache, texts, cache_enabled) :
                        LET built  == BuildData("stores", task.docs, x.value)
                            ins    == Insert(milvus, "stores", built.data)
                            called == [task EXCEPT !.embed_calls = 1,
                                                   !.provider_raised =
                                                       /\ x.outcome = "raise"
                                                       /\ x.provider_inputs # <<>>]
                        IN /\ cache' = x.cache
                           /\ IF x.outcome = "raise"
                              THEN /\ UpsertReturns(t, called, 0, Len(task.docs), "embedding")
                                   /\ UNCHANGED milvus
                              ELSE IF built.raised
                              THEN /\ UpsertReturns(t, called, 0, Len(task.docs), "attribute")
                                   /\ UNCHANGED milvus
                              ELSE IF ins.raised
                              THEN /\ UpsertReturns(t, called, 0, Len(task.docs), "collection")
                                   /\ UNCHANGED milvus
                              ELSE /\ milvus' = ins.milvus
                                   /\ up_tasks' = [up_tasks EXCEPT ![t] =
                                                     [called EXCEPT !.pc = "inserted",
                                                                    !.updated = Len(built.data)]]
                                   /\ UNCHANGED <<sync_last, sync_history>>
    /\ UNCHANGED <<agent_vars, cache_enabled, asked, emb_last, chunk_vars, awaitable,
                   trigger_last, ret_vars, err_last, seen, emb_tasks, turns>>

\* the tool calls of turn t carry ids of their own
TurnToolCall(t, round, i, name, raw) ==
    [ToolCall(round, i, name, raw) EXCEPT !.id = t * 100 + @]

\* what chat_with_tools answers to the turn in its current round
ScriptResponse(l) ==
    LET kind == IF l.round_count <= Len(l.script) THEN l.script[l.round_count] ELSE "content"
        nav  == TurnToolCall(l.turn, l.round_count, 1, "navigate_to_store", ArgsFullRaw)
    IN CASE kind = "navigate" -> [kind |-> "tool_calls", tool_calls |-> <<nav>>]
         [] kind = "two" ->
              [kind |-> "tool_calls",
               tool_calls |-> <<nav, TurnToolCall(l.turn, l.round_count, 2, "search_by_image",
                                                  ArgsEmptyRaw)>>]
         [] kind = "cart" ->
              [kind |-> "tool_calls",
               tool_calls |-> <<nav, TurnToolCall(l.turn, l.round_count, 2, "add_to_cart",
                                                  ArgsFullRaw)>>]
         [] OTHER -> [kind |-> kind, tool_calls |-> <<>>]

\* The coroutine of a turn from the top of "for tool_call in response['tool_calls']"
\* (or, the list being done, from the top of the while loop) to its next await or
\* its end
NextCall(l) ==
    IF l.response = <<>>
    THEN IF LoopCondition(l.round_count)
         THEN [l EXCEPT !.round_count = @ + 1, !.pc = "Reasoning"]
         ELSE [l EXCEPT !.pc = "Exhausted",
                        !.result = ChatResponse("error", "None", "None", NoArgs, TOO_LONG,
                                                l.tool_results)]
    ELSE LET tool_call == Head(l.response)
             func_name == tool_call.function.name
             parsed    == JsonLoads(tool_call.function.arguments)
             level     == Level(tool_call)
         IN IF ~parsed.ok
            THEN [l EXCEPT !.pc = "Failed", !.result = ErrorResponse]
            ELSE IF level \in {"critical", "confirm"}
            THEN [l EXCEPT !.pc = IF level = "critical" THEN "AwaitHardConfirm"
                                                        ELSE "AwaitConfirm",
                           !.result = PendingPayload(level, func_name, parsed.value,
                                                     l.tool_results)]
            ELSE [l EXCEPT !.pc = "ToolLoop"]

\* The coroutine of a turn resumed: with the answer of chat_with_tools, or with the
\* outcome of _execute_function for the first call of the list
TurnResumed(l) ==
    IF l.pc = "Reasoning"
    THEN LET resp == ScriptResponse(l)
         IN IF resp.kind = "raise"
            THEN [l EXCEPT !.pc = "Failed", !.result = ErrorResponse]
            ELSE IF ~HasToolCalls(resp)
            THEN [l EXCEPT !.pc = "Done",
                           !.result = ChatResponse("text", "content", "None", NoArgs, "None",
                                                   l.tool_results)]
            ELSE NextCall([l EXCEPT !.response = resp.tool_calls])
    ELSE LET tool_call == Head(l.response)
             func_name == tool_call.function.name
             func_args == JsonLoads(tool_call.function.arguments).value
             out       == ExecuteFunction(func_name, func_args, l.rag)
         IN IF out.raised
            THEN [l EXCEPT !.pc = "Failed", !.result = ErrorResponse]
            ELSE NextCall([l EXCEPT
                             !.tool_results = Append(@, [function |-> func_name,
                                                         args |-> func_args,
                                                         result |-> out.result]),
                             !.messages = @ \o ToolMessages(tool_call, out.result),
                             !.response = Tail(@)])

\* process and _process_text of turn t, into _execute_with_tools up to its first
\* "await self.llm.chat_with_tools"
StartTurn(t, input, script, outcome) ==
    NextCall([NoTurn EXCEPT
                !.turn = t, !.input = input, !.script = script, !.rag = outcome,
                !.messages = <<Message("system", "SYSTEM_PROMPT", <<>>, 0),
                               Message("user", input, <<>>, 0)>>,
                !.round_count = 0,
                !.tool_results = <<>>])

\* the turn run from where it is to its end, no other coroutine in between
RECURSIVE RunAlone(_)
RunAlone(l) == IF TurnSuspended(l) THEN RunAlone(TurnResumed(l)) ELSE l

\* messages, round_count and tool_results kept on the agent, which every turn shares
Locals_OfAgent(ts, t) == ts[1]

\* messages, round_count and tool_results are locals of the coroutine of the turn;
\* the agent the turns share holds self.llm and self.max_rounds only
Locals(ts, t) == ts[t]

\* POST /chat arrives while other turns are suspended
TurnStart ==
    /\ \E t \in Turns, input \in TurnInputs, script \in TurnScripts,
          outcome \in TurnRagOutcomes :
          /\ turns[t].pc = "Idle"
          /\ turns' = [turns EXCEPT ![t] =
                         [StartTurn(t, input, script, outcome) EXCEPT
                            !.overlapped = \E u \in Turns : TurnSuspended(turns[u])]]
    /\ UNCHANGED <<agent_vars, embedding_vars, chunk_vars, sync_vars, ret_vars, err_last,
                   up_tasks, seen, emb_tasks>>

\* the event loop resumes a suspended turn, which runs to its next await or its end
TurnStep ==
    /\ \E t \in Turns :
          LET l == Locals(turns, t)
          IN /\ TurnSuspended(turns[t])
             /\ TurnSuspended(l)
             /\ turns' = [turns EXCEPT ![t] =
                            [TurnResumed(l) EXCEPT
                               !.overlapped = \/ turns[t].overlapped
                                              \/ \E u \in Turns \ {t} :
                                                    TurnSuspended(turns[u])]]
    /\ UNCHANGED <<agent_vars, embedding_vars, chunk_vars, sync_vars, ret_vars, err_last,
                   up_tasks, seen, emb_tasks>>

\* the stores made to the cache so far
Stores(tasks) == Cardinality({t \in EmbedTasks : tasks[t].seq > 0})

\* embed_text(text, use_cache) up to "await self.provider.embed_text(text)": the
\* blank check and the cache lookup
EmbedCall ==
    /\ \E t \in EmbedTasks, text \in EmbedTexts, use_cache \in BOOLEAN :
          LET caching == use_cache /\ cache_enabled
              task    == [NoEmbedTask EXCEPT
                            !.text = text, !.use_cache = use_cache,
                            !.after = {u \in EmbedTasks : /\ emb_tasks[u].pc = "done"
                                                          /\ emb_tasks[u].outcome = "return"
                                                          /\ emb_tasks[u].use_cache
                                                          /\ emb_tasks[u].text = text}]
              ended(outcome, value) ==
                  /\ emb_tasks' = [emb_tasks EXCEPT ![t] = [task EXCEPT !.pc = "done",
                                                                        !.outcome = outcome,
                                                                        !.value = value]]
                  /\ emb_last' = EmbeddingOp("embed_text", text, use_cache, outcome, value, <<>>)
          IN /\ emb_tasks[t].pc = "idle"
             /\ IF IsBlank(text) THEN ended("raise", <<>>)
                ELSE IF caching /\ CacheHit(cache, CacheKey(text))
                THEN ended("return", cache[CacheKey(text)])
                ELSE /\ emb_tasks' = [emb_tasks EXCEPT ![t] = [task EXCEPT !.pc = "awaiting",
                                                                          !.called = TRUE]]
                     /\ UNCHANGED emb_last
    /\ UNCHANGED <<agent_vars, cache_enabled, cache, asked, chunk_vars, sync_vars, ret_vars,
                   err_last, up_tasks, seen, turns>>

\* embed_text resumed with the provider's answer: "if use_cache and
\* self.cache_enabled: self._cache[cache_key] = embedding; return embedding", or the
\* provider's exception raised to the caller
EmbedResume ==
    /\ \E t \in EmbedTasks :
          LET task    == emb_tasks[t]
              caching == task.use_cache /\ cache_enabled
          IN /\ task.pc = "awaiting"
             /\ \E r \in ProviderEmbedText(task.text) :
                   LET x == [outcome |-> IF r.raised THEN "raise" ELSE "return",
                             value |-> r.value, provider_inputs |-> <<task.text>>]
                       stored == caching /\ ~r.raised
                   IN /\ cache' = IF stored THEN CachePut(cache, CacheKey(task.text), r.value)
                                            ELSE cache
                      /\ asked' = AskedAfter(task.text, caching, x)
                      /\ emb_last' = EmbeddingOp("embed_text", task.text, task.use_cache,
                                                 x.outcome, x.value, x.provider_inputs)
                      /\ emb_tasks' = [emb_tasks EXCEPT ![t] =
                                         [task EXCEPT !.pc = "done",
                                                      !.outcome = x.outcome,
                                                      !.value = x.value,
                                                      !.seq = IF stored THEN Stores(emb_tasks) + 1
                                                                        ELSE 0]]
    /\ UNCHANGED <<agent_vars, cache_enabled, chunk_vars, sync_vars, ret_vars, err_last,
                   up_tasks, seen, turns>>

\* a search of "stores" made while the upserts run, as far as the hits with an id go
SearchId ==
    /\ \E id \in DocIds(SEED_STORES) \cup {"d2"} :
          seen' = Seen(id, HitsWithId(milvus, id),
                       {t \in UpsertTasks : UpsertSuspended(t) /\ id \in DocIds(up_tasks[t].docs)},
                       {t \in UpsertTasks : /\ up_tasks[t].pc = "done"
                                            /\ id \in DocIds(up_tasks[t].docs)})
    /\ UNCHANGED <<agent_vars, embedding_vars, chunk_vars, sync_vars, ret_vars, err_last,
                   up_tasks, emb_tasks, turns>>

----------------------------------------------------------------------------
\* Error responses of the endpoints (api/chat.py)

MaxErrorParts == 2

\* The table of parse_llm_error, in the order of its tests: the key phrases of a
\* class (lowered: the phrase is looked for in error_str.lower(), else in
\* error_str), and what the class returns
ERROR_PATTERNS ==
    << [patterns |-> << [phrase |-> <<"i","n","v","a","l","i","d","_","a","p","i","_","k","e","y">>, lowered |-> FALSE],
                    [phrase |-> <<"4","0","1">>, lowered |-> FALSE] >>,
     status_code |-> 401, error_type |-> <<"a","p","i","_","k","e","y","_","e","r","r","o","r">>,
     message |-> <<"A","I"," ","fu","wu","pei","zhi","yi","chang",",","qing","lian","xi","guan","li","yuan","jian","cha"," ","A","P","I"," ","mi","yao","pei","zhi">>],
       [patterns |-> << [phrase |-> <<"r","a","t","e","_","l","i","m","i","t">>, lowered |-> FALSE],
                    [phrase |-> <<"4","2","9">>, lowered |-> FALSE] >>,
     status_code |-> 429, error_type |-> <<"r","a","t","e","_","l","i","m","i","t">>,
     message |-> <<"A","I"," ","fu","wu","qing","qiu","guo","yu","pin","fan",",","qing","shao","hou","zai","shi">>],
       [patterns |-> << [phrase |-> <<"i","n","s","u","f","f","i","c","i","e","n","t","_","q","u","o","t","a">>, lowered |-> FALSE],
                    [phrase |-> <<"b","i","l","l","i","n","g">>, lowered |-> TRUE] >>,
     status_code |-> 402, error_type |-> <<"q","u","o","t","a","_","e","x","c","e","e","d","e","d">>,
     message |-> <<"A","I"," ","fu","wu","pei","e","bu","zu",",","qing","lian","xi","guan","li","yuan">>],
       [patterns |-> << [phrase |-> <<"m","o","d","e","l","_","n","o","t","_","f","o","u","n","d">>, lowered |-> FALSE],
                    [phrase |-> <<"d","o","e","s"," ","n","o","t"," ","e","x","i","s","t">>, lowered |-> FALSE] >>,
     status_code |-> 404, error_type |-> <<"m","o","d","e","l","_","n","o","t","_","f","o","u","n","d">>,
     message |-> <<"A","I"," ","mo","xing","pei","zhi","cuo","wu",",","qing","lian","xi","guan","li","yuan">>],
       [patterns |-> << [phrase |-> <<"t","i","m","e","o","u","t">>, lowered |-> TRUE],
                    [phrase |-> <<"t","i","m","e","d"," ","o","u","t">>, lowered |-> TRUE] >>,
     status_code |-> 504, error_type |-> <<"t","i","m","e","o","u","t">>,
     message |-> <<"A","I"," ","fu","wu","xiang","ying","chao","shi",",","qing","shao","hou","chong","shi">>],
       [patterns |-> << [phrase |-> <<"c","o","n","n","e","c","t","i","o","n">>, lowered |-> TRUE],
                    [phrase |-> <<"n","e","t","w","o","r","k">>, lowered |-> TRUE] >>,
     status_code |-> 503, error_type |-> <<"c","o","n","n","e","c","t","i","o","n","_","e","r","r","o","r">>,
     message |-> <<"A","I"," ","fu","wu","lian","jie","shi","bai",",","qing","jian","cha","wang","luo","huo","shao","hou","chong","shi">>] >>

DEFAULT_ERROR ==
    [status_code |-> 500, error_type |-> <<"i","n","t","e","r","n","a","l","_","e","r","r","o","r">>,
     message |-> <<"fu","wu","chu","li","yi","chang",",","qing","shao","hou","chong","shi">>]

\* one test of parse_llm_error: a key phrase of class k is in the text
ClassMatches(k, error_str) ==
    \E j \in 1..Len(ERROR_PATTERNS[k].patterns) :
        LET p == ERROR_PATTERNS[k].patterns[j]
        IN IsSubstring(p.phrase, IF p.lowered THEN Lower(error_str) ELSE error_str)

\* the tests of parse_llm_error from the k-th on
RECURSIVE ParseFrom(_, _)
ParseFrom(k, error_str) ==
    IF k > Len(ERROR_PATTERNS) THEN DEFAULT_ERROR
    ELSE IF ClassMatches(k, error_str)
    THEN [status_code |-> ERROR_PATTERNS[k].status_code,
          error_type |-> ERROR_PATTERNS[k].error_type,
          message |-> ERROR_PATTERNS[k].message]
    ELSE ParseFrom(k + 1, error_str)

\* parse_llm_error that hands the text back when no class matches
parse_llm_error_Forwarding(error_str) ==
    IF ParseFrom(1, error_str) = DEFAULT_ERROR
    THEN [DEFAULT_ERROR EXCEPT !.message = error_str]
    ELSE ParseFrom(1, error_str)

\* parse_llm_error(error), on error_str = str(error)
parse_llm_error(error_str) == ParseFrom(1, error_str)

\* pieces of exception texts
ErrorParts ==
    { <<"4","0","1">>,
      <<"r","a","t","e","_","l","i","m","i","t">>,
      <<"B","i","l","l","i","n","g">>,
      <<"d","o","e","s"," ","n","o","t"," ","e","x","i","s","t">>,
      <<"T","i","m","e","d"," ","o","u","t">>,
      <<"t","i","m","e","o","u","t">>,
      <<"C","o","n","n","e","c","t","i","o","n">>,
      <<"I","n","v","a","l","i","d","_","A","P","I","_","K","e","y">> }

\* str(error): up to MaxErrorParts pieces separated by blanks; the empty text is
\* that of an exception raised without a message
ErrorTexts == { Join(p) : p \in UNION {[1..n -> ErrorParts] : n \in 0..MaxErrorParts} }

\* What an endpoint answered last: whether an exception reached it, the text of
\* the exception, and the response
ErrorReport(endpoint, raised, error_str, resp) ==
    [endpoint |-> endpoint, raised |-> raised, error |-> error_str, response |-> resp]

NoError == ErrorReport("None", FALSE, <<>>, ChatResponse("None", <<>>, "None", NoArgs, <<>>, <<>>))

ErrorsIdle == err_last = NoError /\ ConcIdle

\* the except branch of chat() and of confirm_action(): ChatResponse(type="error",
\* content=user_message, message=error_type); the status code is not used
ExceptionResponse(error_str) ==
    LET parsed == parse_llm_error(error_str)
    IN ChatResponse("error", parsed.message, "None", NoArgs, parsed.error_type, <<>>)

\* POST /chat, agent.process raises: an exception of an LLM call, or one that
\* left _execute_function
ChatFails ==
    /\ \E error_str \in ErrorTexts :
          err_last' = ErrorReport("chat", TRUE, error_str, ExceptionResponse(error_str))
    /\ UNCHANGED <<agent_vars, embedding_vars, chunk_vars, sync_vars, ret_vars,
                   conc_vars>>

\* POST /chat/confirm with confirmed = true, agent._execute_function raises
ConfirmFails ==
    /\ \E error_str \in ErrorTexts :
          err_last' = ErrorReport("confirm", TRUE, error_str, ExceptionResponse(error_str))
    /\ UNCHANGED <<agent_vars, embedding_vars, chunk_vars, sync_vars, ret_vars,
                   conc_vars>>

\* the tool results of a turn that reached the round cap with one navigate_to_store
\* call in each round, all of them answered by the store (the vector store is up
\* for the whole turn) or all of them by the fallback (it is down)
ExhaustedResults ==
    { [k \in 1..max_rounds |->
          [function |-> "navigate_to_store", args |-> JsonLoads(ArgsFullRaw).value,
           result |-> ExecuteFunction("navigate_to_store", JsonLoads(ArgsFullRaw).value,
                                      outcomes[k]).result]] :
      outcomes \in {[k \in 1..max_rounds |-> o] : o \in {"hit", "fallback"}} }

\* POST /chat, the turn reaches the round cap: chat() copies the agent's result,
\* {"type": "error", "message": <the round-cap message>, "tool_results": [...]},
\* into the response
ChatExhausted ==
    /\ \E results \in ExhaustedResults :
          err_last' = ErrorReport("chat", FALSE, <<>>,
                                  ChatResponse("error", <<>>, "None", NoArgs, <<TOO_LONG>>,
                                               results))
    /\ UNCHANGED <<agent_vars, embedding_vars, chunk_vars, sync_vars, ret_vars,
                   conc_vars>>

----------------------------------------------------------------------------
\* Specifications

\* the service as constructed from the default settings
Init ==
    /\ AgentInit
    /\ EmbeddingInit
    /\ cache_enabled = TRUE
    /\ ChunkInit
    /\ chunk_size = 10
    /\ chunk_overlap = 2
    /\ SyncIdle
    /\ RetrievalIdle
    /\ ErrorsIdle

Next ==
    \/ ChatRequest
    \/ ProcessBlocked
    \/ ProcessText
    \/ ProcessWithVision
    \/ ChatWithTools
    \/ ToolCallStep
    \/ Exhausted
    \/ ConfirmAction

Spec == Init /\ [][Next]_vars

EmbeddingServiceInit ==
    /\ AgentInit
    /\ EmbeddingInit
    /\ cache_enabled \in BOOLEAN
    /\ ChunkInit
    /\ chunk_size = 1
    /\ chunk_overlap = 0
    /\ SyncIdle
    /\ RetrievalIdle
    /\ ErrorsIdle

EmbeddingNext ==
    \/ EmbedText
    \/ EmbedBatch
    \/ EmbedLongText
    \/ ClearCache

SpecEmbedding == EmbeddingServiceInit /\ [][EmbeddingNext]_vars

ChunkerInit ==
    /\ AgentInit
    /\ EmbeddingInit
    /\ cache_enabled = TRUE
    /\ ChunkInit
    /\ \E c \in ChunkConfigs : chunk_size = c[1] /\ chunk_overlap = c[2]
    /\ SyncIdle
    /\ RetrievalIdle
    /\ ErrorsIdle

ChunkerNext ==
    \/ ChunkText
    \/ ChunkLoop

SpecChunker == ChunkerInit /\ [][ChunkerNext]_vars

\* the synchronisation service over the embedding service with its default settings
SyncServiceInit ==
    /\ AgentInit
    /\ EmbeddingInit
    /\ cache_enabled = TRUE
    /\ ChunkInit
    /\ chunk_size = 10
    /\ chunk_overlap = 2
    /\ SyncInit
    /\ RetrievalIdle
    /\ ErrorsIdle

SyncNext ==
    \/ FullSyncStores
    \/ FullSyncProducts
    \/ IncrementalSyncStores

SpecSync == SyncServiceInit /\ [][SyncNext]_vars

\* the retrieval service over the embedding service with its default settings
RetrievalServiceInit ==
    /\ AgentInit
    /\ EmbeddingInit
    /\ cache_enabled = TRUE
    /\ ChunkInit
    /\ chunk_size = 10
    /\ chunk_overlap = 2
    /\ RetrievalInit
    /\ ErrorsIdle

RetrievalNext ==
    \/ SearchStores
    \/ SearchProducts
    \/ GetContextForQuery

SpecRetrieval == RetrievalServiceInit /\ [][RetrievalNext]_vars

\* the synchronisation service and the retrieval service over one store
SyncSearchInit ==
    /\ AgentInit
    /\ EmbeddingInit
    /\ cache_enabled = TRUE
    /\ ChunkInit
    /\ chunk_size = 10
    /\ chunk_overlap = 2
    /\ SyncInit
    /\ subscriptable \in BOOLEAN
    /\ ret_last = NoRetrieval
    /\ ErrorsIdle

\* the synchronisation service behind POST /sync/trigger
SyncAllInit ==
    /\ AgentInit
    /\ EmbeddingInit
    /\ cache_enabled = TRUE
    /\ ChunkInit
    /\ chunk_size = 10
    /\ chunk_overlap = 2
    /\ SyncInit
    /\ RetrievalIdle
    /\ ErrorsIdle

SyncAllNext ==
    \/ TriggerSync
    \/ FullSyncProducts

SpecSyncAll == SyncAllInit /\ [][SyncAllNext]_vars

\* chat turns running at the same time on the agent of get_agent
TurnsNext ==
    \/ TurnStart
    \/ TurnStep

SpecTurns == Init /\ [][TurnsNext]_vars

\* embed_text calls running at the same time
EmbedRaceNext ==
    \/ EmbedCall
    \/ EmbedResume

SpecEmbedRace == EmbeddingServiceInit /\ [][EmbedRaceNext]_vars

\* incremental upserts of the stores and searches, running at the same time
UpsertNext ==
    \/ UpsertStart
    \/ UpsertStep
    \/ SearchId

SpecUpsert == SyncServiceInit /\ [][UpsertNext]_vars

SyncSearchNext ==
    \/ FullSyncStores
    \/ NavigateToStore

SpecSyncSearch == SyncSearchInit /\ [][SyncSearchNext]_vars

\* the endpoints, as far as their error responses go
ErrorsInit ==
    /\ AgentInit
    /\ EmbeddingInit
    /\ cache_enabled = TRUE
    /\ ChunkInit
    /\ chunk_size = 10
    /\ chunk_overlap = 2
    /\ SyncIdle
    /\ RetrievalIdle
    /\ ErrorsIdle

ErrorsNext ==
    \/ ChatFails
    \/ ConfirmFails
    \/ ChatExhausted

SpecErrors == ErrorsInit /\ [][ErrorsNext]_vars

----------------------------------------------------------------------------
\* Properties

\* Tools of tier confirm or hard-confirm, by the registry
GatedTools == {n \in MALL_TOOLS : OPERATION_LEVELS[n] \in {"confirm", "critical"}}

\* C1: a tool of tier confirm (add_to_cart) or hard-confirm (create_order) is
\* never executed inside a chat turn; when it is executed, the request being
\* served is a confirm call naming that tool with confirmed = true.
C1_GatedToolsOnlyByConfirm ==
    \A i \in 1..Len(executed) :
        executed[i].function \in GatedTools =>
            /\ pc = "ConfirmDone"
            /\ last_confirm.confirmed
            /\ last_confirm.action = executed[i].function

\* a turn that executed an auto-tier tool and then suspended on create_order
C1_Witness ==
    /\ pc = "AwaitHardConfirm"
    /\ result.action = "create_order"
    /\ Len(executed) >= 1
    /\ \A i \in 1..Len(executed) : executed[i].function \notin GatedTools

\* text contains a denylisted phrase, compared character by character without case
ContainsDenylisted(text) ==
    \E k \in 1..Len(BLOCKED_PATTERNS) :
        LET p == BLOCKED_PATTERNS[k]
        IN \E off \in 0..(Len(text) - Len(p)) :
              \A j \in 1..Len(p) : LowerChar(text[off + j]) = LowerChar(p[j])

\* C2: when the user text contains a denylisted phrase (case-insensitive), the
\* turn makes no vision call, no tool-calling LLM call and no tool execution, and
\* once it has left Start it is Blocked with the fixed safe-refusal text.
C2_BlockedInputNoLLM ==
    (pc \in TurnStates \cup Terminal \cup {"Failed"} /\ ContainsDenylisted(user_input)) =>
        /\ llm_calls = 0
        /\ vision_calls = 0
        /\ executed = <<>>
        /\ pc \in {"Start", "Blocked"}
        /\ pc = "Blocked" => /\ result.type = "text"
                              /\ result.content = SAFE_RESPONSE
                              /\ result.tool_results = <<>>

\* a blocked turn whose text has the phrase in mixed case and an image attached
C2_Witness ==
    /\ pc = "Blocked"
    /\ has_image
    /\ user_input = <<"x","J","a","i","l","B","r","e","a","k","!">>
    /\ result.content = SAFE_RESPONSE

\* C3: a turn makes at most 10 chat_with_tools calls, the round counter grows by
\* exactly one per call, and a turn whose 10 rounds each executed only auto-tier
\* tool calls ends Exhausted with the error 'took too long' after exactly 10 calls.
C3_RoundCap ==
    /\ [](/\ llm_calls <= 10
          /\ round_count = llm_calls
          /\ (completed_rounds = 10 /\ pc \notin TurnStates) =>
                /\ pc = "Exhausted"
                /\ result.type = "error"
                /\ result.message = TOO_LONG
                /\ llm_calls = 10)
    /\ [][(pc \in TurnStates /\ llm_calls' # llm_calls) =>
              (/\ llm_calls' = llm_calls + 1
               /\ round_count' = round_count + 1)]_vars

\* an exhausted turn: ten rounds of executed auto-tier calls
C3_Witness ==
    /\ pc = "Exhausted"
    /\ completed_rounds = 10
    /\ Len(tool_results) >= 10

\* C4: a confirm call with confirmed = false invokes no tool function and no LLM
\* and returns a text result with the cancellation message.
C4_DenyExecutesNothing ==
    (pc = "ConfirmDone" /\ ~last_confirm.confirmed) =>
        /\ executed = <<>>
        /\ llm_calls = 0
        /\ vision_calls = 0
        /\ result.type = "text"
        /\ result.content = CANCELLED
        /\ result.tool_results = <<>>

\* a pending create_order that was denied
C4_Witness ==
    /\ pc = "ConfirmDone"
    /\ ~last_confirm.confirmed
    /\ last_confirm.action = "create_order"
    /\ last_confirm.was_pending

\* the head of the response is a parseable call of a gated tool
AtGatedCall ==
    /\ pc = "ToolLoop"
    /\ response # <<>>
    /\ Head(response).function.name \in GatedTools
    /\ JsonLoads(Head(response).function.arguments).ok

\* C5: when the tool loop reaches the first call of tier confirm or hard-confirm,
\* the turn ends with the pending-action result of the matching type (confirm,
\* respectively confirmation_required) carrying that call's name and arguments;
\* nothing is executed or reported for it or for the later calls, no further LLM
\* call is made, and the suspended turn takes no further step (one pending action).
C5_FirstGatedCallSuspends ==
    /\ [][AtGatedCall =>
            LET call == Head(response).function
                tier == OPERATION_LEVELS[call.name]
            IN /\ pc' = IF tier = "confirm" THEN "AwaitConfirm" ELSE "AwaitHardConfirm"
               /\ result'.type = IF tier = "confirm" THEN "confirm"
                                                      ELSE "confirmation_required"
               /\ result'.action = call.name
               /\ result'.args = JsonLoads(call.arguments).value
               /\ result'.tool_results = tool_results
               /\ executed' = executed
               /\ tool_results' = tool_results
               /\ llm_calls' = llm_calls
               /\ <<call.name, JsonLoads(call.arguments).value>> \in pending']_vars
    /\ [][(pc \in TurnStates /\ pending' # pending) => AtGatedCall]_vars
    /\ [][(pc \in {"AwaitConfirm", "AwaitHardConfirm"}) =>
              (/\ pc' \in {"Start", "ConfirmDone"}
               /\ (pc' = "Start" => (llm_calls' = 0 /\ executed' = <<>>)))]_vars

\* a turn suspended on add_to_cart whose response held a later auto-tier call
C5_Witness ==
    /\ pc = "AwaitConfirm"
    /\ result.type = "confirm"
    /\ result.action = "add_to_cart"
    /\ Len(response) = 2
    /\ response[2].function.name = "navigate_to_store"
    /\ response[2].function.arguments = ArgsFullRaw
    /\ executed = <<>>

\* the states of the orchestrator: the tool loop is part of Reasoning
State(p) == IF p = "ToolLoop" THEN "Reasoning" ELSE p

Transitions ==
    {<<"Start", "Blocked">>, <<"Start", "Reasoning">>}
    \cup {<<"Reasoning", t>> : t \in {"Reasoning", "AwaitConfirm", "AwaitHardConfirm",
                                      "Done", "Exhausted"}}

\* decreases with every step of a turn inside Reasoning
Rank == (max_rounds + 1 - round_count) * (2 * MaxCalls + 2) + 2 * Len(response)
        + (IF pc = "Reasoning" THEN 1 ELSE 0)

\* C6: a turn whose LLM and tool calls return takes only the transitions
\* Start -> Blocked | Reasoning and Reasoning -> Reasoning | AwaitConfirm |
\* AwaitHardConfirm | Done | Exhausted; Reasoning moves to Done exactly on an LLM
\* response without tool call, returning its text; a turn is never stuck before a
\* terminal state and gets nearer to one with every step; after a terminal state
\* the turn makes no LLM call and no tool execution.
C6_StateMachine ==
    /\ [][(pc \in TurnStates /\ pc' # "Failed") =>
              <<State(pc), State(pc')>> \in Transitions]_vars
    /\ [][(pc = "Reasoning" /\ llm_calls' = llm_calls + 1 /\ pc' # "Failed") =>
              (pc' = "Done" <=> response' = <<>>)]_vars
    /\ [][(pc \in TurnStates /\ pc' = "Done") =>
              (/\ pc = "Reasoning"
               /\ llm_calls' = llm_calls + 1
               /\ result'.type = "text"
               /\ result'.content = "content")]_vars
    /\ [](pc \in TurnStates =>
              ENABLED (ProcessBlocked \/ ProcessText \/ ProcessWithVision
                       \/ ChatWithTools \/ ToolCallStep \/ Exhausted))
    /\ [][(pc \in {"Reasoning", "ToolLoop"} /\ pc' \in {"Reasoning", "ToolLoop"}) =>
              Rank' < Rank]_vars
    /\ [](pc \in {"Reasoning", "ToolLoop"} => Rank >= 0)
    /\ [][(pc \in Terminal) =>
              (/\ pc' \in {"Start", "ConfirmDone"}
               /\ (pc' = "Start" =>
                      (llm_calls' = 0 /\ vision_calls' = 0 /\ executed' = <<>>)))]_vars

\* a turn that got a text answer in its second round, after an executed tool call
C6_Witness ==
    /\ pc = "Done"
    /\ round_count = 2
    /\ Len(tool_results) >= 1
    /\ result.type = "text"

C8_OnlyOfferedToolsExecuted ==
    (pc \in TurnStates \cup Terminal \cup {"Failed"}) =>
        \A i \in 1..Len(executed) : executed[i].function \in tools

\* The decision a tool name gets: suspended as "confirm", suspended as
\* "confirmation_required", or executed
DecisionOfName(n) ==
    IF n = "add_to_cart" THEN "AwaitConfirm"
    ELSE IF n = "create_order" THEN "AwaitHardConfirm"
    ELSE "execute"

\* C9: the decision taken for a tool call is a function of its name alone: two
\* calls of one name get the same decision whatever their argument maps, round,
\* turn or image.
C9_TierByNameOnly ==
    [][ (pc = "ToolLoop" /\ response # <<>>
            /\ JsonLoads(Head(response).function.arguments).ok) =>
        (LET d == DecisionOfName(Head(response).function.name)
         IN IF d = "execute"
            THEN /\ Len(executed') = Len(executed) + 1
                 /\ pc' \notin {"AwaitConfirm", "AwaitHardConfirm"}
                 /\ pending' = pending
            ELSE /\ pc' = d
                 /\ executed' = executed) ]_vars

\* add_to_cart was suspended in two turns with different argument maps, the
\* second time with an image
C9_Witness ==
    /\ requests = 2
    /\ has_image
    /\ pc = "AwaitConfirm"
    /\ {<<"add_to_cart", ArgsFull>>, <<"add_to_cart", ArgsEmpty>>} \subseteq pending

\* C10: a confirm call with confirmed = true invokes the named tool exactly once,
\* with the request's arguments, makes no LLM call, and returns text or error.
C10_ConfirmExecutesOnce ==
    (pc = "ConfirmDone" /\ last_confirm.confirmed) =>
        /\ executed = <<[function |-> last_confirm.action, args |-> last_confirm.args]>>
        /\ llm_calls = 0
        /\ vision_calls = 0
        /\ result.type \in {"text", "error"}

\* a pending add_to_cart confirmed and executed
C10_Witness ==
    /\ pc = "ConfirmDone"
    /\ last_confirm.confirmed
    /\ last_confirm.action = "add_to_cart"
    /\ last_confirm.was_pending
    /\ result.type = "text"
    /\ Len(result.tool_results) = 1

\* the tool call the loop is at has arguments that are not valid JSON
MalformedCall ==
    /\ pc = "ToolLoop"
    /\ response # <<>>
    /\ Head(response).function.arguments = ArgsBadRaw

\* C30: a tool call whose arguments are not valid JSON ends the turn with a
\* response of type error that carries the fixed message; the call is not executed
\* and makes no pending action, and the turn makes no further LLM call.
C30_MalformedArgumentsEndTurn ==
    /\ [][ MalformedCall =>
              /\ pc' = "Failed"
              /\ result' = ErrorResponse
              /\ executed' = executed
              /\ tool_results' = tool_results
              /\ pending' = pending
              /\ llm_calls' = llm_calls ]_vars
    /\ [][ (pc = "Failed" /\ llm_calls' # llm_calls) => requests' = requests + 1 ]_vars

\* a turn was ended by a create_order call with malformed arguments
C30_Witness ==
    /\ pc = "Failed"
    /\ response # <<>>
    /\ Head(response).function = [name |-> "create_order", arguments |-> ArgsBadRaw]
    /\ result.type = "error"
    /\ \A p \in pending : p[1] # "create_order"

\* the tool call the loop is at is a parseable call of an auto-tier tool that is
\* served by the retrieval service, and the retrieval service fails in this turn
DownstreamFails ==
    /\ pc = "ToolLoop"
    /\ response # <<>>
    /\ Head(response).function.name \in {"navigate_to_store", "search_by_image"}
    /\ JsonLoads(Head(response).function.arguments).ok
    /\ rag = "raise"

\* the step reported one more tool result, a failure payload
FailureRecorded ==
    /\ Len(tool_results') = Len(tool_results) + 1
    /\ SubSeq(tool_results', 1, Len(tool_results)) = tool_results
    /\ ~tool_results'[Len(tool_results')].result.success

\* C27: a failure of an LLM call or of a retrieval (embedding, vector store) call
\* made during a turn surfaces as an error of that turn: the error response, or a
\* failure payload for the tool call; the failed collaborator is not called again
\* because of the failure, and the pending actions of other turns are untouched.
C27_FailuresSurfaceAsErrors ==
    [][ /\ DownstreamFails =>
              /\ \/ pc' = "Failed" /\ result' = ErrorResponse
                 \/ FailureRecorded
              /\ Len(executed') = Len(executed) + 1
              /\ llm_calls' = llm_calls
              /\ pending' = pending
        /\ (pc \in {"Start", "Reasoning"} /\ pc' = "Failed") =>
              /\ result' = ErrorResponse
              /\ llm_calls' + vision_calls' = llm_calls + vision_calls + 1
              /\ executed' = executed
              /\ pending' = pending ]_vars

\* C28: when the downstream call of an auto-tier tool fails, the turn goes on: the
\* call's ToolResult holds a failure payload, the payload is appended to the
\* messages as the tool message of the call, and the loop continues.
C28_ToolFailureFedBack ==
    [][ DownstreamFails =>
           /\ FailureRecorded
           /\ tool_results'[Len(tool_results')].function = Head(response).function.name
           /\ Len(messages') = Len(messages) + 2
           /\ messages'[Len(messages')] =
                 Message("tool", JsonDumps(tool_results'[Len(tool_results')].result), <<>>,
                         Head(response).id)
           /\ pc' \in {"Reasoning", "ToolLoop"}
           /\ result' = result ]_vars

\* the turn is inside _execute_with_tools
InToolLoop == pc \in {"Reasoning", "ToolLoop"}

\* the message history is the two opening messages followed, for each tool result
\* in turn, by the assistant message of its call and the tool message of that call
HistoryMatchesResults ==
    /\ Len(messages) = 2 + 2 * Len(tool_results)
    /\ messages[1].role = "system"
    /\ messages[2].role = "user"
    /\ \A k \in 1..Len(tool_results) :
          LET a == messages[2 * k + 1]
              t == messages[2 * k + 2]
          IN /\ a.role = "assistant"
             /\ Len(a.tool_calls) = 1
             /\ a.tool_calls[1].function.name = tool_results[k].function
             /\ JsonLoads(a.tool_calls[1].function.arguments).value = tool_results[k].args
             /\ t.role = "tool"
             /\ t.tool_call_id = a.tool_calls[1].id
             /\ t.content = JsonDumps(tool_results[k].result)

\* tool_results lists the executed calls in execution order
ResultsInExecutionOrder ==
    /\ Len(tool_results) = Len(executed)
    /\ \A k \in 1..Len(tool_results) :
          /\ tool_results[k].function = executed[k].function
          /\ tool_results[k].args = executed[k].args

\* C31: within a turn the message history is append-only; it starts as [system, user]
\* and every executed auto-tier call appends one assistant message carrying the call
\* and one tool message with the same tool_call_id, in the order of the calls in the
\* LLM response, so that before every LLM call len(messages) = 2 + 2 * len(tool_results)
\* and tool_results lists the executed calls in execution order.
C31_HistoryAppendOnly ==
    /\ [](InToolLoop => HistoryMatchesResults /\ ResultsInExecutionOrder)
    /\ [][ (InToolLoop /\ pc' \notin {"Start", "ConfirmDone"}) =>
              /\ Len(messages') >= Len(messages)
              /\ SubSeq(messages', 1, Len(messages)) = messages
              /\ (messages' # messages =>
                     /\ Len(messages') = Len(messages) + 2
                     /\ messages'[Len(messages) + 1].tool_calls = <<Head(response)>>
                     /\ response' = Tail(response)) ]_vars

\* a response with two auto-tier calls was executed and the next LLM call is due
C31_Witness ==
    /\ pc = "Reasoning"
    /\ completed_rounds = 1
    /\ Len(tool_results) = 2
    /\ Len(messages) = 6
    /\ messages[4].tool_call_id # messages[6].tool_call_id

\* the turn is suspended on a gated call
Suspended == pc \in {"AwaitConfirm", "AwaitHardConfirm"}

\* C36: the auto-tier calls that precede the first gated call of an LLM response are
\* executed before the turn suspends; the pending-action payload holds their results
\* and those of the earlier rounds in execution order; a later denial invokes nothing,
\* so nothing they did is undone.
C36_AutoCallsBeforeGateKept ==
    /\ [][ (~Suspended /\ Suspended') =>
              LET call == Head(response)
                  i    == call.id - round_count * 10
              IN /\ pc = "ToolLoop"
                 /\ result'.action = call.function.name
                 /\ Len(tool_results) >= i - 1
                 /\ \A k \in 1..(i - 1) :
                       messages[Len(messages) - 2 * (i - k) + 1].tool_calls[1].id
                           = round_count * 10 + k
                 /\ HistoryMatchesResults
                 /\ ResultsInExecutionOrder
                 /\ result'.tool_results = tool_results
                 /\ tool_results' = tool_results
                 /\ executed' = executed ]_vars
    /\ [][ (pc' = "ConfirmDone" /\ requests' # requests /\ ~last_confirm'.confirmed) =>
              /\ executed' = <<>>
              /\ result'.tool_results = <<>>
              /\ result'.content = CANCELLED ]_vars

\* a turn was suspended on a gated call that came second in the first LLM response,
\* after an auto-tier call that was executed
C36_Witness ==
    /\ Suspended
    /\ completed_rounds = 0
    /\ Len(result.tool_results) = 1
    /\ Len(executed) = 1
    /\ result.tool_results[1].function = executed[1].function

----------------------------------------------------------------------------
\* Properties of the error responses

\* the class of the table an exception text falls into: the first whose key phrase
\* it holds, else the default
FirstClass(error_str) ==
    IF \E k \in 1..Len(ERROR_PATTERNS) : ClassMatches(k, error_str)
    THEN ERROR_PATTERNS[CHOOSE k \in 1..Len(ERROR_PATTERNS) :
                            /\ ClassMatches(k, error_str)
                            /\ \A j \in 1..(k - 1) : ~ClassMatches(j, error_str)]
    ELSE DEFAULT_ERROR

\* the strings of the table
TableStrings ==
    {ERROR_PATTERNS[k].message : k \in 1..Len(ERROR_PATTERNS)}
    \cup {ERROR_PATTERNS[k].error_type : k \in 1..Len(ERROR_PATTERNS)}
    \cup {DEFAULT_ERROR.message, DEFAULT_ERROR.error_type}

\* the last response reports an error
ErrorReported == err_last.response.type = "error"

\* the text fields of the last response
ResponseFields == {err_last.response.content, err_last.response.message}

\* C26 as stated: every error response holds the message and the class of the table
\* entry of the first matching key phrase (the default entry when none matches), and
\* the text of the exception is in no field of the response.
C26_ErrorsFromTableOnly ==
    ErrorReported =>
        /\ err_last.response.content = FirstClass(err_last.error).message
        /\ err_last.response.message = FirstClass(err_last.error).error_type
        /\ err_last.error # <<>> =>
              \A f \in ResponseFields : ~IsSubstring(err_last.error, f)

\* C26, amended: an error response made for an exception holds the message and the
\* class of the table entry of the first matching key phrase (the default entry when
\* none matches) and nothing else, so the text of the exception is in a field only
\* when that table string holds it; the error response of the round cap holds the
\* fixed round-cap message.
C26_ErrorsAreFixedStrings ==
    ErrorReported =>
        /\ err_last.response.action = "None"
        /\ err_last.response.args = NoArgs
        /\ IF err_last.raised
           THEN /\ err_last.response.tool_results = <<>>
                /\ err_last.response.content = FirstClass(err_last.error).message
                /\ err_last.response.message = FirstClass(err_last.error).error_type
                /\ \A f \in ResponseFields :
                      IsSubstring(err_last.error, f) =>
                          \E t \in TableStrings : IsSubstring(err_last.error, t)
           ELSE /\ err_last.response.content = <<>>
                /\ err_last.response.message = <<TOO_LONG>>

\* an exception whose text holds a key phrase of the timeout class and then one of
\* the API-key class was answered with the API-key class, the first of the table
C26_Witness ==
    /\ ErrorReported
    /\ err_last.raised
    /\ err_last.error = Join(<< <<"T","i","m","e","d"," ","o","u","t">>, <<"4","0","1">> >>)
    /\ err_last.response.message = ERROR_PATTERNS[1].error_type

----------------------------------------------------------------------------
\* Properties of the embedding service

\* the step is a cached embed_text call for a text the provider was already asked
\* for since the last clear_cache
CachedRepeat ==
    /\ emb_last'.op = "embed_text"
    /\ emb_last'.use_cache
    /\ cache_enabled
    /\ emb_last'.input \in DOMAIN asked

\* C11 as stated: with caching enabled, between two clear_cache() calls the
\* provider is asked at most once per distinct text by sequential embed_text calls.
C11_ProviderAskedOncePerText ==
    [][ CachedRepeat => (emb_last'.provider_inputs = <<>>) ]_vars

\* C11, amended: once the provider has answered a cached embed_text call for a
\* text, later embed_text calls for it (until clear_cache) return that very
\* vector and do not ask the provider; a provider call that raised caches nothing.
C11_AnsweredTextServedFromCache ==
    [][ (CachedRepeat /\ ~asked[emb_last'.input].raised) =>
            (/\ emb_last'.provider_inputs = <<>>
             /\ emb_last'.outcome = "return"
             /\ emb_last'.value = asked[emb_last'.input].value
             /\ asked' = asked) ]_vars

\* a second embed_text call for a text was served from the cache
C11_Witness ==
    /\ cache_enabled
    /\ emb_last.op = "embed_text"
    /\ emb_last.use_cache
    /\ emb_last.outcome = "return"
    /\ emb_last.provider_inputs = <<>>
    /\ emb_last.input \in DOMAIN asked
    /\ emb_last.value = asked[emb_last.input].value

\* runs of whitespace collapsed to one space
RECURSIVE Collapse(_)
Collapse(s) ==
    IF Len(s) < 2 THEN [i \in 1..Len(s) |-> IF s[i] \in Whitespace THEN " " ELSE s[i]]
    ELSE IF s[1] \in Whitespace /\ s[2] \in Whitespace THEN Collapse(Tail(s))
    ELSE <<IF s[1] \in Whitespace THEN " " ELSE s[1]>> \o Collapse(Tail(s))

\* the normalized text: trimmed, runs of whitespace collapsed
Normalized(text) == Collapse(Strip(text))

\* C12: embed_text(t1) followed by embed_text(t2), where t1 and t2 have the same
\* normalized text, hits the cache on the second call: no second provider call.
C12_NormalizedCacheKey ==
    [][ (/\ cache_enabled
         /\ emb_last.op = "embed_text" /\ emb_last.use_cache /\ emb_last.outcome = "return"
         /\ emb_last'.op = "embed_text" /\ emb_last'.use_cache
         /\ Normalized(emb_last'.input) = Normalized(emb_last.input)) =>
        (emb_last'.provider_inputs = <<>>) ]_vars

\* C13: an embed_batch call that returns gives one vector per input text, the
\* i-th being the embedding of texts[i].
C13_BatchAlignedWithInput ==
    (emb_last.op = "embed_batch" /\ emb_last.outcome = "return") =>
        /\ Len(emb_last.value) = Len(emb_last.input)
        /\ \A i \in 1..Len(emb_last.input) : emb_last.value[i].text = emb_last.input[i]

ZeroVector == <<0, 0>>

\* empty or whitespace-only
BlankText(text) == \A i \in 1..Len(text) : text[i] \in Whitespace

\* C14: embed_text on an empty or whitespace-only text raises without calling the
\* provider and without changing the cache; no operation given a blank text
\* returns a zero vector.
C14_BlankInputFails ==
    [][ (/\ (emb_last'.op = "embed_text" /\ BlankText(emb_last'.input)) =>
               (/\ emb_last'.outcome = "raise"
                /\ emb_last'.provider_inputs = <<>>
                /\ cache' = cache)
         /\ (emb_last'.op = "embed_batch" /\ emb_last'.outcome = "return") =>
               (\A i \in 1..Len(emb_last'.value) :
                   /\ ~BlankText(emb_last'.value[i].text)
                   /\ emb_last'.value[i].vec # ZeroVector)
         /\ (/\ emb_last'.op = "embed_long_text" /\ emb_last'.outcome = "return"
             /\ BlankText(emb_last'.input)) =>
               (emb_last'.value.vec # ZeroVector)) ]_vars

\* embed_text(" ") was refused while the cache held an entry
C14_Witness ==
    /\ emb_last.op = "embed_text"
    /\ emb_last.input = <<" ">>
    /\ emb_last.outcome = "raise"
    /\ emb_last.provider_inputs = <<>>
    /\ DOMAIN cache # {}

\* the texts of a batch that miss cache c, in batch order
CacheMisses(c, texts) == SelectSeq(texts, LAMBDA t : ~CacheHit(c, CacheKey(t)))

\* C32: an embed_batch call that uses the cache makes at most one provider batch call,
\* sends exactly the texts of the batch that are not in the cache (no call when every
\* text hits), and when it returns every text of the batch is in the cache.  A call
\* that is rejected before the cache is looked at (every text blank) is not meant.
C32_BatchSendsExactlyMisses ==
    [][ (/\ emb_last'.op = "embed_batch" /\ emb_last'.use_cache /\ cache_enabled
         /\ ~(emb_last'.outcome = "raise" /\ emb_last'.provider_inputs = <<>>)) =>
           /\ Len(emb_last'.provider_inputs) <= 1
           /\ emb_last'.provider_inputs =
                 (IF CacheMisses(cache, emb_last'.input) = <<>>
                  THEN <<>> ELSE <<CacheMisses(cache, emb_last'.input)>>)
           /\ (emb_last'.outcome = "return" =>
                  \A i \in 1..Len(emb_last'.input) :
                     CacheHit(cache', CacheKey(emb_last'.input[i]))) ]_vars

----------------------------------------------------------------------------
\* Properties of the text chunker

\* C15: chunk_text terminates for every text and every configuration with
\* 0 <= overlap < chunk_size: the start position of every further iteration is
\* end - overlap, is not negative, does not exceed end and is strictly greater than
\* the previous start (so the loop ends after at most len(text) iterations).
C15_ChunkingProgresses ==
    [][ (ck_pc = "loop" /\ ck_iter' = ck_iter + 1 /\ ck_start' < Len(ck_text)) =>
            (/\ ck_start' = ck_end' - chunk_overlap
             /\ ck_start' >= 0
             /\ ck_start' <= ck_end'
             /\ ck_start' > ck_start) ]_vars

\* the text holds none of the sentence terminators
NoTerminator(text) ==
    \A i \in 1..Len(text) : \A k \in 1..Len(Separators) : text[i] # Separators[k]

\* the chunks put together again, each chunk after the first without its first
\* overlap characters
RECURSIVE Reassemble(_, _)
Reassemble(chunks, overlap) ==
    IF chunks = <<>> THEN <<>>
    ELSE IF Len(chunks) = 1 THEN chunks[1]
    ELSE Reassemble(SubSeq(chunks, 1, Len(chunks) - 1), overlap)
         \o SubSeq(chunks[Len(chunks)], overlap + 1, Len(chunks[Len(chunks)]))

\* C16: for a text longer than chunk_size without sentence terminator every chunk
\* has at most chunk_size characters, consecutive chunks overlap by exactly overlap
\* characters, and the chunks minus the overlaps give the text back (25 characters
\* with chunk_size 10 and overlap 2 give 3 chunks).
C16_HardCutsReassemble ==
    (ck_pc = "done" /\ Len(ck_text) > chunk_size /\ NoTerminator(ck_text)) =>
        /\ \A i \in 1..Len(ck_chunks) : Len(ck_chunks[i]) <= chunk_size
        /\ \A i \in 1..(Len(ck_chunks) - 1) :
              /\ Len(ck_chunks[i]) >= chunk_overlap
              /\ Len(ck_chunks[i + 1]) >= chunk_overlap
              /\ SubSeq(ck_chunks[i], Len(ck_chunks[i]) - chunk_overlap + 1, Len(ck_chunks[i]))
                    = SubSeq(ck_chunks[i + 1], 1, chunk_overlap)
        /\ Reassemble(ck_chunks, chunk_overlap) = ck_text
        /\ (Len(ck_text) = 25 /\ chunk_size = 10 /\ chunk_overlap = 2) => Len(ck_chunks) = 3

\* C17: embed_long_text fails with an embedding error whenever the mean of the chunk
\* embeddings has zero norm; it never returns a zero vector.
C17_ZeroMeanFails ==
    (emb_last.op = "embed_long_text" /\ emb_last.outcome = "return") =>
        emb_last.value.vec # ZeroVector

----------------------------------------------------------------------------
\* Properties of the catalog synchronisation

\* C18: after any sequence of full and incremental synchronisations, no collection
\* holds two records with the same id.
C18_NoDuplicateIds ==
    \A name \in Collections :
        \A i, j \in 1..Len(milvus[name].records) :
            milvus[name].records[i].id = milvus[name].records[j].id => i = j

C20_FullSyncInsertsEveryDocument ==
    (/\ sync_last.op = "full_sync"
     /\ sync_last.stores # <<>>
     /\ ~sync_last.provider_raised) =>
        LET name    == sync_last.collection
            docs    == sync_last.stores
            records == milvus[name].records
            before  == sync_last.count_before
        IN /\ milvus[name].exists
           /\ Len(records) = before + Len(docs)
           /\ \A i \in 1..Len(docs) :
                 /\ records[before + i].id = docs[i].id
                 /\ records[before + i].name = docs[i].name
                 /\ records[before + i].category = docs[i].category
                 /\ records[before + i].embedding.text = BuildText(docs[i])
           /\ sync_last.result.total = Len(docs)
           /\ sync_last.result.inserted = Len(docs)
           /\ sync_last.result.failed = 0

\* C21: every SyncResult of a full synchronisation has total = len(documents) and
\* (inserted, failed) equal to (total, 0) or to (0, total).
C21_FullSyncAllOrNothing ==
    sync_last.op = "full_sync" =>
        /\ sync_last.result.total = Len(sync_last.stores)
        /\ \/ /\ sync_last.result.inserted = sync_last.result.total
              /\ sync_last.result.failed = 0
           \/ /\ sync_last.result.inserted = 0
              /\ sync_last.result.failed = sync_last.result.total

\* the ids of the documents handed to the last synchronisation, primed
LastIds == [i \in 1..Len(sync_last'.stores) |-> sync_last'.stores[i].id]

\* C37: an incremental upsert deletes the given ids first; when the delete succeeded
\* and the embedding or the insert then failed, the result has failed = total and
\* updated = 0 and the collection holds no record with one of the ids (earlier
\* versions are not restored).  A "delete" operation only deletes: it makes no
\* embedding call and inserts nothing.
C37_UpsertNotFailureAtomic ==
    [][ (sync_last'.op = "incremental_sync" /\ milvus["stores"].exists) =>
           /\ (sync_last'.operation = "upsert" /\ sync_last'.result.failed > 0) =>
                 /\ sync_last'.result.failed = sync_last'.result.total
                 /\ sync_last'.result.updated = 0
                 /\ \A k \in 1..Len(milvus'["stores"].records) :
                       milvus'["stores"].records[k].id \notin DocIds(sync_last'.stores)
           /\ sync_last'.operation = "delete" =>
                 /\ sync_last'.embed_calls = 0
                 /\ cache' = cache
                 /\ milvus' = Delete(milvus, "stores", LastIds).milvus
                 /\ \A k \in 1..Len(milvus'["stores"].records) :
                       milvus'["stores"].records[k].id \notin DocIds(sync_last'.stores) ]_vars

\* an upsert of d1 through a client whose methods can be awaited found the record of
\* d1, deleted it, made its embedding call and failed: the record is gone
C37_Witness ==
    /\ sync_last.op = "incremental_sync"
    /\ sync_last.operation = "upsert"
    /\ awaitable
    /\ sync_last.count_before = 1
    /\ sync_last.embed_calls = 1
    /\ sync_last.result.failed = sync_last.result.total
    /\ sync_last.result.total > 0
    /\ "d1" \in DocIds(sync_last.stores)
    /\ Count(milvus, "stores") = 0

\* the collections a trigger synchronises, in the order of full_sync_all
TriggerOrder(asked_for) ==
    SelectSeq(<<"stores", "products", "locations">>,
              LAMBDA name : asked_for = {} \/ name \in asked_for)

\* the entries the step appends to the history
Appended == SubSeq(sync_history', Len(sync_history) + 1, Len(sync_history'))

\* C39: full_sync_all answers with one SyncResult per non-empty input list, in the
\* order stores, products, locations; a synchronisation that failed is reported with
\* failed = total and the collections after it are synchronised all the same; every
\* synchronisation, failed or not, appends exactly one entry to the history.
C39_FullSyncAllIsolatesFailures ==
    [][ /\ SubSeq(sync_history', 1, Len(sync_history)) = sync_history
        /\ IF trigger_last' # trigger_last
           THEN LET results == trigger_last'.results
                    order   == TriggerOrder(trigger_last'.collections)
                IN /\ Len(results) = Len(order)
                   /\ Appended = results
                   /\ \A k \in 1..Len(results) :
                         /\ results[k].collection = order[k]
                         /\ results[k].total = 1
                         /\ \/ results[k].inserted = 1 /\ results[k].failed = 0
                            \/ results[k].inserted = 0 /\ results[k].failed = 1
                         /\ Count(milvus', order[k])
                               = Count(milvus, order[k]) + results[k].inserted
           ELSE Appended = <<sync_last'.result>> ]_vars

\* a trigger for all three collections through a client whose methods can be
\* awaited: the stores failed, the products after them were inserted, the locations
\* failed, and the history holds the three results
C39_Witness ==
    /\ awaitable
    /\ Len(trigger_last.results) = 3
    /\ trigger_last.results[1].failed = 1
    /\ trigger_last.results[2].inserted = 1
    /\ trigger_last.results[3].failed = 1
    /\ Len(sync_history) >= 3
    /\ Count(milvus, "products") >= 1

----------------------------------------------------------------------------
\* Properties of the retrieval service

\* the last retrieval was a search_stores or a search_products call
SearchMade == ret_last.op \in {"search_stores", "search_products"}

\* the hits the store answered with, as the retriever reads them
StoreHits == [i \in 1..Len(ret_last.store_result) |-> ParseHit(ret_last.store_result[i])]

\* the threshold of the contract: the supplied one, the configured one when none is supplied
SuppliedOrConfigured(score_threshold) ==
    IF score_threshold = <<>> THEN RAG_SCORE_THRESHOLD ELSE score_threshold[1]

\* C22: search_stores and search_products return exactly the hits of the store's
\* answer whose score is at or above the supplied score threshold (0 included), or
\* at or above the configured default when none is supplied.
C22_SuppliedThresholdFilters ==
    SearchMade =>
        ret_last.results =
            SelectSeq(StoreHits,
                      LAMBDA r : r.score >= SuppliedOrConfigured(ret_last.score_threshold))

\* the scores of a result list never increase
NonIncreasing(results) ==
    \A i \in 1..(Len(results) - 1) : results[i].score >= results[i + 1].score

\* C23: a list returned by search_stores or search_products has at most topK
\* elements (the configured number when none is supplied) and is in non-increasing
\* score order; when the store's answer is empty the list is empty.
C23_AtMostTopKBestFirst ==
    SearchMade =>
        /\ Len(ret_last.results) <= OrDefault(ret_last.top_k, RAG_TOP_K)
        /\ NonIncreasing(ret_last.results)
        /\ (ret_last.store_result = <<>> => ret_last.results = <<>>)

\* a search for the two best of three stores at or above the threshold returned
\* them, the better one first
C23_Witness ==
    /\ ret_last.op = "search_stores"
    /\ ret_last.filters = NoFilters
    /\ ret_last.top_k = <<2>>
    /\ ret_last.score_threshold = <<>>
    /\ Len(ret_last.results) = 2
    /\ ret_last.results[1].score > ret_last.results[2].score
    /\ Len(SelectSeq(milvus["stores"].records,
                     LAMBDA r : Score(<<1, 0>>, r.embedding.vec) >= RAG_SCORE_THRESHOLD)) = 3

\* the filter expression of the last search holds the condition field op value
HasCondition(field, op, value) ==
    \E i \in 1..Len(ret_last.expr) :
        /\ ret_last.expr[i].field = field
        /\ ret_last.expr[i].op = op
        /\ ret_last.expr[i].value = value

\* the structural filters that were supplied to the last search
Supplied == {f \in DOMAIN ret_last.filters : ret_last.filters[f] # <<>>}

\* a record satisfies the structural filters of the last search
Satisfies(r) ==
    /\ ("category" \in Supplied => r.category = ret_last.filters.category[1])
    /\ ("floor" \in Supplied => r.floor = ret_last.filters.floor[1])
    /\ ("brand" \in Supplied => r.brand = ret_last.filters.brand[1])
    /\ ("min_price" \in Supplied => r.price >= ret_last.filters.min_price[1])
    /\ ("max_price" \in Supplied => r.price <= ret_last.filters.max_price[1])

\* the collection the last search was made in
SearchedRecords ==
    milvus[IF ret_last.op = "search_stores" THEN "stores" ELSE "products"].records

SearchAfterFullSync ==
    /\ sync_last.op = "full_sync"
    /\ sync_last.collection = "stores"
    /\ ~sync_last.provider_raised
    /\ ret_last' # ret_last
    /\ ret_last'.op = "navigate_to_store"
    /\ ret_last'.query # <<>>
    /\ \E i \in 1..Len(sync_last.stores) : sync_last.stores[i].name = ret_last'.query

TypeOK ==
    /\ pc \in TurnStates \cup Quiescent
    /\ round_count \in 0..(max_rounds + 1)
    /\ llm_calls \in 0..(max_rounds + 1)

----------------------------------------------------------------------------
\* Properties of coroutines running at the same time

\* the upsert returned, and neither the store nor the embedding of its texts
\* refused it
UpsertWorked(t) ==
    /\ up_tasks[t].pc = "done"
    /\ up_tasks[t].cause \notin {"collection", "embedding"}

C38_ConcurrentUpsertsLeaveOne ==
    ( /\ \A t \in UpsertTasks : UpsertWorked(t) /\ "d1" \in DocIds(up_tasks[t].docs)
      /\ \E t \in UpsertTasks : up_tasks[t].overlapped )
    => HitsWithId(milvus, "d1") = 1

\* the calls that stored an embedding for the text
Writers(text) == {t \in EmbedTasks : emb_tasks[t].text = text /\ emb_tasks[t].seq > 0}

\* the one of them that stored last
LastWriter(text) ==
    CHOOSE t \in Writers(text) : \A u \in Writers(text) : emb_tasks[u].seq <= emb_tasks[t].seq

\* the cache holds one entry for every text stored, the vector of its last writer
LastWriterWins ==
    /\ DOMAIN cache = {CacheKey(text) : text \in {x \in EmbedTexts : Writers(x) # {}}}
    /\ \A text \in EmbedTexts :
          Writers(text) # {} => cache[CacheKey(text)] = emb_tasks[LastWriter(text)].value

\* a cached call made after a cached call for the same text has returned asks the
\* provider nothing and returns the entry
LaterCallsHit ==
    \A t \in EmbedTasks :
        (emb_tasks[t].pc # "idle" /\ emb_tasks[t].use_cache /\ cache_enabled
           /\ emb_tasks[t].after # {})
        => /\ ~emb_tasks[t].called
           /\ emb_tasks[t].pc = "done"
           /\ emb_tasks[t].outcome = "return"

\* a step keeps every entry, and changes only the entry of the text of the call that
\* resumed in it, to the vector the call returns
OtherKeysKept ==
    \A k \in DOMAIN cache :
        /\ k \in DOMAIN cache'
        /\ cache'[k] # cache[k] =>
              \E t \in EmbedTasks : /\ emb_tasks[t].pc = "awaiting"
                                    /\ emb_tasks'[t].pc = "done"
                                    /\ CacheKey(emb_tasks[t].text) = k
                                    /\ cache'[k] = emb_tasks'[t].value

\* C34: embed_text calls running at the same time leave, for every text stored, one
\* cache entry holding the vector of the call that stored last; a later cached call
\* for the text makes no provider call; and no step loses or changes the entry of
\* another key
C34_LastWriterWins ==
    /\ [](LastWriterWins /\ LaterCallsHit)
    /\ [][OtherKeysKept]_vars

\* two calls for "a" both asked the provider and stored different vectors, and a
\* third call made after both had returned was answered from the cache with the
\* vector stored last
C34_Witness ==
    /\ \A t \in {1, 2} : /\ emb_tasks[t].text = <<"a">>
                         /\ emb_tasks[t].called
                         /\ emb_tasks[t].seq > 0
    /\ emb_tasks[1].value # emb_tasks[2].value
    /\ emb_tasks[3].pc = "done"
    /\ emb_tasks[3].text = <<"a">>
    /\ emb_tasks[3].after = {1, 2}
    /\ ~emb_tasks[3].called
    /\ emb_tasks[3].value = emb_tasks[LastWriter(<<"a">>)].value

\* the turn has ended
TurnEnded(l) == l.pc \notin {"Idle", "Reasoning", "ToolLoop"}

\* what a turn leaves: its locals and its result
Outcome(l) ==
    [pc |-> l.pc, messages |-> l.messages, round_count |-> l.round_count,
     tool_results |-> l.tool_results, result |-> l.result]

\* the messages of the turn are the system prompt, its own text and messages of its
\* own tool calls
OwnEntries(t) ==
    LET l == turns[t]
    IN /\ l.turn = t
       /\ Len(l.messages) >= 2
       /\ l.messages[2] = Message("user", l.input, <<>>, 0)
       /\ \A i \in 3..Len(l.messages) :
             IF l.messages[i].role = "tool"
             THEN l.messages[i].tool_call_id \div 100 = t
             ELSE \A j \in 1..Len(l.messages[i].tool_calls) :
                     l.messages[i].tool_calls[j].id \div 100 = t
       /\ Len(l.tool_results) = Cardinality({i \in 1..Len(l.messages) :
                                               l.messages[i].role = "tool"})

\* C35: in every interleaving a started turn holds only its own entries, and an ended
\* turn has the history, the tool results, the round counter and the result it has
\* when it is run alone on the same text with the same LLM and tool answers,
\* whatever the other turn did
C35_TurnsDoNotInterfere ==
    \A t \in Turns :
        /\ turns[t].pc # "Idle" => OwnEntries(t)
        /\ TurnEnded(turns[t]) =>
              Outcome(turns[t]) =
                  Outcome(RunAlone(StartTurn(t, turns[t].input, turns[t].script,
                                             turns[t].rag)))

\* both turns took steps while the other was suspended; turn 1 ended in an
\* exception, and turn 2 ended in its second round with a text, its two tool results
\* and its own six messages
C35_Witness ==
    /\ turns[1].pc = "Failed"
    /\ turns[1].overlapped
    /\ turns[2].pc = "Done"
    /\ turns[2].overlapped
    /\ Len(turns[2].tool_results) = 2
    /\ turns[2].round_count = 2
    /\ Len(turns[2].messages) = 6


====
